---- MODULE Spec2Model ----
(***************************************************************************)
(* Session-state / history engine of the Solo RPG Companion (App.js and    *)
(* the panels that call its mutators).                                     *)
(*                                                                         *)
(* JavaScript values are modelled as tagged records so that typeof,        *)
(* Array.isArray, truthiness and JSON.stringify / JSON.parse can be        *)
(* computed the way the engine computes them:                              *)
(*   undefined | null | string | number | boolean | array | object         *)
(* crypto.randomUUID() is a string carrying a path of naturals: the first  *)
(* component is the value of the generator counter when the handler ran,   *)
(* the rest distinguishes the calls made inside that handler.  Two calls   *)
(* never return the same string.                                           *)
(***************************************************************************)
EXTENDS Integers, Sequences, FiniteSets, TLC

VARIABLES
    sessionHistory,       \* App state: sequence of snapshots (uState, line 2238)
    currentSessionIndex,  \* App state: 0-based cursor (uState, line 2251)
    localStorage,         \* value stored under LOCAL_STORAGE_KEY
    nextUuid,             \* crypto.randomUUID generator position
    lastOp,               \* observation: the handler that ran last and what it saw
    commitRun,            \* observation: commits applied since the single initial snapshot
    undoCount,            \* observation: how often handleUndo has run
    vIn,                  \* argument handed to validateAndMigrateData (validator runs)
    vOut,                 \* its outcome
    mounted               \* the React root still renders App (line 2651)

vars == <<sessionHistory, currentSessionIndex, localStorage, nextUuid, lastOp,
          commitRun, undoCount, vIn, vOut, mounted>>

----------------------------------------------------------------------------
(* Bounds of the model *)

MaxUuid == 12          \* handlers that draw identifiers, per run
MaxUndo == 2           \* calls of handleUndo, per run
MaxPanelUuid == 4      \* the same, in the runs that exercise the panels
MaxPanelHistory == 3   \* snapshots kept in those runs before commits stop
MaxDiceUuid == 26      \* the same as MaxUuid, in the runs that roll dice

----------------------------------------------------------------------------
(* JavaScript values *)

Undefined == [t |-> "undefined"]
Null == [t |-> "null"]
Str(s) == [t |-> "string", s |-> s]
Uuid(path) == [t |-> "string", u |-> path]
Num(n) == [t |-> "number", n |-> n]
Infinity == [t |-> "number", inf |-> 1]
NegInfinity == [t |-> "number", inf |-> -1]
NaN == [t |-> "number", nan |-> TRUE]
Bool(b) == [t |-> "boolean", b |-> b]
Arr(e) == [t |-> "array", e |-> e]
Obj(f) == [t |-> "object", f |-> f]
EmptyProps == [k \in {} |-> Undefined]
EmptyObj == Obj(EmptyProps)
EmptyArr == Arr(<<>>)

\* typeof x
TypeOf(x) == IF x.t \in {"array", "null"} THEN "object" ELSE x.t

IsArray(x) == x.t = "array"

IsString(x) == x.t = "string"

IsNumber(x) == x.t = "number"

\* typeof x === 'object' && x !== null
IsNonNullObject(x) == TypeOf(x) = "object" /\ x # Null

\* ToBoolean(x)
Truthy(x) ==
    CASE x.t = "undefined" -> FALSE
      [] x.t = "null" -> FALSE
      [] x.t = "string" -> x # Str("")
      [] x.t = "number" -> x # Num(0) /\ x # NaN
      [] x.t = "boolean" -> x.b
      [] OTHER -> TRUE

\* a || b
OrElse(a, b) == IF Truthy(a) THEN a ELSE b

\* x.k for a value x that is neither null nor undefined
Get(x, k) == IF x.t = "object" /\ k \in DOMAIN x.f THEN x.f[k] ELSE Undefined

\* x.k throws a TypeError
GetThrows(x) == x.t \in {"null", "undefined"}

\* x?.k
GetOpt(x, k) == IF GetThrows(x) THEN Undefined ELSE Get(x, k)

\* { ...o, [k]: v }
Set(o, k, v) == Obj([x \in DOMAIN o.f \cup {k} |-> IF x = k THEN v ELSE o.f[x]])

IdxKey(i) == <<"0", "1", "2", "3", "4", "5">>[i + 1]

\* the own enumerable properties an object spread copies out of x
SpreadProps(x) ==
    CASE x.t = "object" -> x.f
      [] x.t = "array" ->
           [k \in {IdxKey(i - 1) : i \in 1..Len(x.e)} |->
               x.e[CHOOSE i \in 1..Len(x.e) : IdxKey(i - 1) = k]]
      [] OTHER -> EmptyProps

\* { ...a, ...b }
Spread(a, b) ==
    LET pa == SpreadProps(a)
        pb == SpreadProps(b)
    IN Obj([x \in DOMAIN pa \cup DOMAIN pb |-> IF x \in DOMAIN pb THEN pb[x] ELSE pa[x]])

\* a template string: a string made of the listed parts
Msg(parts) == [t |-> "string", m |-> parts]

\* s.trim(): the strings that occur have no white space at their ends, unless they
\* are made of white space only
Trim(x) == IF x \in {Str(" "), Str("  ")} THEN Str("") ELSE x

\* a - b on numbers
NumSub(a, b) ==
    CASE "nan" \in DOMAIN a \/ "nan" \in DOMAIN b -> NaN
      [] "inf" \in DOMAIN a /\ "inf" \in DOMAIN b -> IF a.inf = b.inf THEN NaN ELSE a
      [] "inf" \in DOMAIN a -> a
      [] "inf" \in DOMAIN b -> IF b.inf = 1 THEN NegInfinity ELSE Infinity
      [] OTHER -> Num(a.n - b.n)

\* a !== b on primitives
StrictNe(a, b) == a # b \/ a = NaN

\* arr.map(f) for a sequence
SeqMap(F(_, _), s) == [i \in 1..Len(s) |-> F(s[i], i)]

\* arr.filter(p) for a sequence
RECURSIVE SeqFilter(_, _)
SeqFilter(P(_), s) ==
    IF s = <<>> THEN <<>>
    ELSE IF P(Head(s)) THEN <<Head(s)>> \o SeqFilter(P, Tail(s))
         ELSE SeqFilter(P, Tail(s))

\* arr.slice(0, n)
SliceTo(s, n) == SubSeq(s, 1, IF n < Len(s) THEN n ELSE Len(s))

\* arr.slice(k) for k >= 0
SliceFrom(s, k) == SubSeq(s, k + 1, Len(s))

\* JSON.parse(JSON.stringify(x)): undefined properties are dropped, undefined
\* array elements and non-finite numbers become null
RECURSIVE JSONValue(_)
JSONValue(x) ==
    CASE x.t = "number" -> IF "n" \in DOMAIN x THEN x ELSE Null
      [] x.t = "undefined" -> Null
      [] x.t = "array" -> Arr([i \in 1..Len(x.e) |-> JSONValue(x.e[i])])
      [] x.t = "object" ->
           Obj([k \in {j \in DOMAIN x.f : x.f[j] # Undefined} |-> JSONValue(x.f[k])])
      [] OTHER -> x

\* the text JSON.stringify(x) produces, named by the value it parses to
JSONstringify(x) == [t |-> "text", json |-> JSONValue(x)]

\* a text that is not JSON
GarbageText == [t |-> "text", garbage |-> TRUE]

JSONparseThrows(text) == "garbage" \in DOMAIN text

JSONparse(text) == text.json

----------------------------------------------------------------------------
(* constants.js and the constants of App.js.  The Japanese labels of the      *)
(* source are written in English.                                          *)

MAX_HISTORY_SIZE == 10

initialPlayLogTitle == Str("Play Log")

\* window.matchMedia('(prefers-color-scheme: dark)').matches is false
initialDefaultTheme == Str("light")

PREDEFINED_COLORS == {"default", "red", "blue", "green", "yellow", "purple"}

\* SaveLoadControls.themeOptions (lines 358-363): the values the theme menu offers
themeOptions == {"dark", "light", "earth", "pastel"}

initialCharacterSheetValues ==
    Obj([name |-> Str("Character Name"), image |-> Null, stats |-> Str(""),
         statsLabel |-> Str("Stats / Details"), customFields |-> EmptyArr])

\* its two template ids are drawn once, when the module is loaded (generator position 0)
DEFAULT_GAME_DATA_PACKAGE_STRUCTURE ==
    Obj([manifest |-> Obj([gameTitle |-> Str("Untitled Game"), author |-> Str("Unknown Author"),
                           version |-> Str("1.0.0"), description |-> Str(""),
                           srgdVersion |-> Str("1.0")]),
         characterSheetTemplate |->
             Obj([statsLabel |-> Str("Stats / Details"),
                  baseStats |-> Arr(<<Str("Body"), Str("Skill"), Str("Mind"), Str("Charm")>>),
                  customFieldTemplates |->
                      Arr(<<Obj([id |-> Uuid(<<0, 1>>), label |-> Str("Background"), type |-> Str("textarea")]),
                            Obj([id |-> Uuid(<<0, 2>>), label |-> Str("Money"), type |-> Str("number")])>>)]),
         rulebookSections |-> EmptyArr,
         randomTables |-> EmptyArr,
         resourceTrackerTemplates |-> EmptyArr])

\* new Date().toISOString(): the clock is not advanced, every reading is this instant
NowISO == Str("2024-01-01T00:00:00.000Z")

\* the strings s with !isNaN(new Date(s).getTime()) among those that occur
ValidTimestamps == {NowISO, Str("2023-05-05T10:00:00.000Z")}

\* typeof ts === 'string' && !isNaN(new Date(ts).getTime())
IsValidTimestamp(ts) == IsString(ts) /\ ts \in ValidTimestamps

\* the exception a property read on null raises
TypeError == [t |-> "TypeError"]

----------------------------------------------------------------------------
(* getInitialSessionData and validateAndMigrateData; n is the generator position *)

getInitialSessionData(n) ==
    Obj([sessionId |-> Uuid(<<n>>),
         playLogEntries |-> EmptyArr,
         playLogTitle |-> initialPlayLogTitle,
         characterSheet |-> JSONValue(initialCharacterSheetValues),
         tables |-> EmptyArr,
         resourceTrackers |-> EmptyArr,
         diceRollHistory |-> EmptyArr,
         theme |-> initialDefaultTheme,
         loadedGameDataPackage |-> Null,
         gameDataPackageLoadId |-> Null])

NotNull(x) == x # Null

\* lines 2093-2106
validatePlayLogEntries(loadedData, n) ==
    LET src == Get(loadedData, "playLogEntries")
        one(entry, i) ==
            IF IsNonNullObject(entry)
            THEN Obj([id |-> IF IsString(Get(entry, "id")) THEN Get(entry, "id") ELSE Uuid(<<n, 1, i>>),
                      content |-> IF IsString(Get(entry, "content")) THEN Get(entry, "content") ELSE Str(""),
                      type |-> IF Get(entry, "type") \in {Str("normal"), Str("heading")}
                               THEN Get(entry, "type") ELSE Str("normal"),
                      colorKey |-> IF Get(entry, "colorKey") \in {Str(c) : c \in PREDEFINED_COLORS}
                                   THEN Get(entry, "colorKey") ELSE Str("default"),
                      timestamp |-> IF IsValidTimestamp(Get(entry, "timestamp"))
                                    THEN Get(entry, "timestamp") ELSE NowISO])
            ELSE Null
    IN IF IsArray(src) THEN Arr(SeqFilter(NotNull, SeqMap(one, src.e))) ELSE EmptyArr

\* lines 2110-2123
validateCharacterSheet(loadedData, n) ==
    LET loadedSheet == OrElse(Get(loadedData, "characterSheet"), EmptyObj)
        init == initialCharacterSheetValues
        strOr(k) == IF IsString(Get(loadedSheet, k)) THEN Get(loadedSheet, k) ELSE Get(init, k)
        one(cf, i) ==
            Obj([id |-> IF IsString(GetOpt(cf, "id")) THEN GetOpt(cf, "id") ELSE Uuid(<<n, 2, i>>),
                 fieldName |-> IF IsString(GetOpt(cf, "fieldName")) THEN GetOpt(cf, "fieldName") ELSE Str(""),
                 fieldValue |-> IF IsString(GetOpt(cf, "fieldValue")) THEN GetOpt(cf, "fieldValue") ELSE Str("")])
    IN Obj([name |-> strOr("name"),
            image |-> IF IsString(Get(loadedSheet, "image")) \/ Get(loadedSheet, "image") = Null
                      THEN Get(loadedSheet, "image") ELSE Get(init, "image"),
            stats |-> strOr("stats"),
            statsLabel |-> strOr("statsLabel"),
            customFields |-> IF IsArray(Get(loadedSheet, "customFields"))
                             THEN Arr(SeqFilter(NotNull, SeqMap(one, Get(loadedSheet, "customFields").e)))
                             ELSE Get(init, "customFields")])

\* lines 2125-2142
validateTables(loadedData, n) ==
    LET src == Get(loadedData, "tables")
        oneEntry(t, entry, j) ==
                IF ~IsNonNullObject(entry) THEN Null
                ELSE Obj([id |-> IF IsString(Get(entry, "id")) THEN Get(entry, "id") ELSE Uuid(<<n, 3, t, j>>),
                          value |-> IF IsString(Get(entry, "value")) THEN Get(entry, "value") ELSE Str(""),
                          rollValue |-> IF IsString(Get(entry, "rollValue"))
                                        THEN Get(entry, "rollValue") ELSE Undefined])
        one(table, i) ==
            IF ~IsNonNullObject(table) THEN Null
            ELSE Obj([id |-> IF IsString(Get(table, "id")) THEN Get(table, "id") ELSE Uuid(<<n, 3, i>>),
                      name |-> IF IsString(Get(table, "name")) THEN Get(table, "name") ELSE Str("Unnamed Table"),
                      diceCommand |-> IF IsString(Get(table, "diceCommand"))
                                      THEN Get(table, "diceCommand") ELSE Str(""),
                      entries |-> IF IsArray(Get(table, "entries"))
                                  THEN Arr(SeqFilter(NotNull, SeqMap(LAMBDA e, j : oneEntry(i, e, j), Get(table, "entries").e)))
                                  ELSE EmptyArr])
    IN IF IsArray(src) THEN Arr(SeqFilter(NotNull, SeqMap(one, src.e))) ELSE EmptyArr

\* lines 2144-2164
validateResourceTrackers(loadedData, n) ==
    LET src == Get(loadedData, "resourceTrackers")
        numOr0(h, k) == IF IsNumber(Get(h, k)) THEN Get(h, k) ELSE Num(0)
        oneRecord(t, h, j) ==
                IF ~IsNonNullObject(h) THEN Null
                ELSE Obj([id |-> IF IsString(Get(h, "id")) THEN Get(h, "id") ELSE Uuid(<<n, 4, t, j>>),
                          timestamp |-> IF IsValidTimestamp(Get(h, "timestamp"))
                                        THEN Get(h, "timestamp") ELSE NowISO,
                          change |-> numOr0(h, "change"),
                          previousValue |-> numOr0(h, "previousValue"),
                          newValue |-> numOr0(h, "newValue"),
                          reason |-> IF IsString(Get(h, "reason")) THEN Get(h, "reason") ELSE Str("")])
        one(tracker, i) ==
            IF ~IsNonNullObject(tracker) THEN Null
            ELSE Obj([id |-> IF IsString(Get(tracker, "id")) THEN Get(tracker, "id") ELSE Uuid(<<n, 4, i>>),
                      name |-> IF IsString(Get(tracker, "name")) THEN Get(tracker, "name")
                               ELSE Str("Unnamed Resource"),
                      value |-> numOr0(tracker, "value"),
                      history |-> IF IsArray(Get(tracker, "history"))
                                  THEN Arr(SeqFilter(NotNull, SeqMap(LAMBDA h, j : oneRecord(i, h, j), Get(tracker, "history").e)))
                                  ELSE EmptyArr])
    IN IF IsArray(src) THEN Arr(SeqFilter(NotNull, SeqMap(one, src.e))) ELSE EmptyArr

\* lines 2166-2177
validateDiceRollHistory(loadedData, n) ==
    LET src == Get(loadedData, "diceRollHistory")
        one(roll, i) ==
            IF ~IsNonNullObject(roll) THEN Null
            ELSE Obj([id |-> IF IsString(Get(roll, "id")) THEN Get(roll, "id") ELSE Uuid(<<n, 5, i>>),
                      command |-> IF IsString(Get(roll, "command")) THEN Get(roll, "command") ELSE Str(""),
                      individualRolls |-> IF IsArray(Get(roll, "individualRolls"))
                                          THEN Arr(SeqFilter(IsNumber, Get(roll, "individualRolls").e))
                                          ELSE EmptyArr,
                      total |-> IF IsNumber(Get(roll, "total")) THEN Get(roll, "total") ELSE Num(0),
                      timestamp |-> IF IsValidTimestamp(Get(roll, "timestamp"))
                                    THEN Get(roll, "timestamp") ELSE NowISO])
    IN IF IsArray(src) THEN Arr(SeqFilter(NotNull, SeqMap(one, src.e))) ELSE EmptyArr

\* the element callbacks of lines 2192, 2199, 2204, 2208 and 2214 read a property of
\* their argument without testing it: a null element raises
PackageElementThrows(arr) == IsArray(arr) /\ \E i \in 1..Len(arr.e) : GetThrows(arr.e[i])

validatePackageThrows(pkg) ==
    \/ PackageElementThrows(GetOpt(Get(pkg, "characterSheetTemplate"), "customFieldTemplates"))
    \/ PackageElementThrows(Get(pkg, "rulebookSections"))
    \/ PackageElementThrows(Get(pkg, "randomTables"))
    \/ /\ IsArray(Get(pkg, "randomTables"))
       /\ \E i \in 1..Len(Get(pkg, "randomTables").e) :
              PackageElementThrows(Get(Get(pkg, "randomTables").e[i], "entries"))
    \/ PackageElementThrows(Get(pkg, "resourceTrackerTemplates"))

\* lines 2183-2219
validatePackage(pkg, n) ==
    LET D == DEFAULT_GAME_DATA_PACKAGE_STRUCTURE
        cst == Get(pkg, "characterSheetTemplate")
        baseStats == GetOpt(cst, "baseStats")
        cfts == GetOpt(cst, "customFieldTemplates")
        oneCft(cft, i) ==
            Obj([id |-> OrElse(Get(cft, "id"), Uuid(<<n, 6, i>>)),
                 label |-> OrElse(Get(cft, "label"), Str("Untitled Field")),
                 type |-> IF Get(cft, "type") \in {Str("text"), Str("textarea"), Str("number")}
                          THEN Get(cft, "type") ELSE Str("text")])
        oneSection(section, i) ==
            Obj([id |-> IF IsString(Get(section, "id")) THEN Get(section, "id") ELSE Uuid(<<n, 7, i>>),
                 title |-> IF IsString(Get(section, "title")) THEN Get(section, "title")
                           ELSE Str("Untitled Section"),
                 content |-> IF IsString(Get(section, "content")) THEN Get(section, "content") ELSE Str("")])
        oneEntry(t, e, j) ==
                Obj([id |-> OrElse(Get(e, "id"), Uuid(<<n, 8, t, j>>)),
                     rollValue |-> OrElse(Get(e, "rollValue"), Str("")),
                     value |-> OrElse(Get(e, "value"), Str(""))])
        oneTable(rt, i) ==
            Obj([id |-> OrElse(Get(rt, "id"), Uuid(<<n, 8, i>>)),
                 name |-> OrElse(Get(rt, "name"), Str("Untitled Table")),
                 diceCommand |-> OrElse(Get(rt, "diceCommand"), Str("")),
                 entries |-> IF IsArray(Get(rt, "entries"))
                             THEN Arr(SeqMap(LAMBDA e, j : oneEntry(i, e, j), Get(rt, "entries").e)) ELSE EmptyArr])
        oneTemplate(rtt, i) ==
            Obj([id |-> OrElse(Get(rtt, "id"), Uuid(<<n, 9, i>>)),
                 name |-> OrElse(Get(rtt, "name"), Str("Untitled Resource")),
                 initialValue |-> IF IsNumber(Get(rtt, "initialValue"))
                                  THEN Get(rtt, "initialValue") ELSE Num(0)])
    IN Spread(Spread(D, pkg),
              Obj([manifest |-> Spread(Get(D, "manifest"), OrElse(Get(pkg, "manifest"), EmptyObj)),
                   characterSheetTemplate |->
                       Spread(Spread(Get(D, "characterSheetTemplate"), OrElse(cst, EmptyObj)),
                              Obj([baseStats |-> IF IsArray(baseStats) THEN baseStats ELSE EmptyArr,
                                   customFieldTemplates |->
                                       IF IsArray(cfts) THEN Arr(SeqMap(oneCft, cfts.e)) ELSE EmptyArr])),
                   rulebookSections |->
                       IF IsArray(Get(pkg, "rulebookSections"))
                       THEN Arr(SeqMap(oneSection, Get(pkg, "rulebookSections").e)) ELSE EmptyArr,
                   randomTables |->
                       IF IsArray(Get(pkg, "randomTables"))
                       THEN Arr(SeqMap(oneTable, Get(pkg, "randomTables").e)) ELSE EmptyArr,
                   resourceTrackerTemplates |->
                       IF IsArray(Get(pkg, "resourceTrackerTemplates"))
                       THEN Arr(SeqMap(oneTemplate, Get(pkg, "resourceTrackerTemplates").e))
                       ELSE EmptyArr]))

\* line 2181
HasPackage(loadedData) ==
    /\ Truthy(Get(loadedData, "loadedGameDataPackage"))
    /\ TypeOf(Get(loadedData, "loadedGameDataPackage")) = "object"

\* the call raises instead of returning
validateAndMigrateDataThrows(loadedData) ==
    /\ Truthy(loadedData) /\ TypeOf(loadedData) = "object"
    /\ HasPackage(loadedData)
    /\ validatePackageThrows(Get(loadedData, "loadedGameDataPackage"))

\* lines 2222-2228 without the two corrections: the load id as the input carries it
validatedLoadIdAsGiven(loadedData, pkg, n) ==
    IF IsString(Get(loadedData, "gameDataPackageLoadId"))
    THEN Get(loadedData, "gameDataPackageLoadId") ELSE Null

\* lines 2222-2228: validated.gameDataPackageLoadId, pkg being validated.loadedGameDataPackage
validatedLoadId(loadedData, pkg, n) ==
    LET givenLoadId == IF IsString(Get(loadedData, "gameDataPackageLoadId"))
                       THEN Get(loadedData, "gameDataPackageLoadId") ELSE Null
    IN IF ~Truthy(pkg) THEN Null
       ELSE IF ~Truthy(givenLoadId) THEN Uuid(<<n, 10>>)
       ELSE givenLoadId

validateAndMigrateData(loadedData, n) ==
    IF ~Truthy(loadedData) \/ TypeOf(loadedData) # "object" THEN getInitialSessionData(n)
    ELSE IF validateAndMigrateDataThrows(loadedData) THEN TypeError
    ELSE
      LET pkg == IF HasPackage(loadedData)
                 THEN validatePackage(Get(loadedData, "loadedGameDataPackage"), n)
                 ELSE Null
          loadId == validatedLoadId(loadedData, pkg, n)
      IN Obj([sessionId |-> IF IsString(Get(loadedData, "sessionId"))
                            THEN Get(loadedData, "sessionId") ELSE Uuid(<<n, 11>>),
              playLogEntries |-> validatePlayLogEntries(loadedData, n),
              playLogTitle |-> IF IsString(Get(loadedData, "playLogTitle"))
                               THEN Get(loadedData, "playLogTitle") ELSE initialPlayLogTitle,
              characterSheet |-> validateCharacterSheet(loadedData, n),
              tables |-> validateTables(loadedData, n),
              resourceTrackers |-> validateResourceTrackers(loadedData, n),
              diceRollHistory |-> validateDiceRollHistory(loadedData, n),
              theme |-> IF IsString(Get(loadedData, "theme")) THEN Get(loadedData, "theme")
                        ELSE initialDefaultTheme,
              loadedGameDataPackage |-> pkg,
              gameDataPackageLoadId |-> loadId])

----------------------------------------------------------------------------
(* App: the history and its cursor *)

\* sessionHistory[currentSessionIndex] (line 2253)
SnapshotAt(history, index) == IF index + 1 \in DOMAIN history THEN history[index + 1] ELSE Undefined

currentSessionData == SnapshotAt(sessionHistory, currentSessionIndex)

\* line 2547: without a snapshot that has a sessionId App renders the spinner only,
\* and no panel (hence no handler) exists; nor does one once the root is unmounted
Rendered == mounted /\ Truthy(currentSessionData) /\ Truthy(Get(currentSessionData, "sessionId"))

\* updateHistory without lines 2304-2306
updateHistoryNoTrim(prevHistory, prevIndex, idx, newSessionState) ==
    IF ~Truthy(newSessionState) \/ ~Truthy(Get(newSessionState, "sessionId"))
    THEN [history |-> prevHistory, index |-> prevIndex]
    ELSE [history |-> Append(SliceTo(prevHistory, idx + 1), newSessionState),
          index |-> Len(SliceTo(prevHistory, idx + 1))]

\* updateHistory keeping the oldest MAX_HISTORY_SIZE snapshots: slice(0, MAX_HISTORY_SIZE)
updateHistoryKeepOldest(prevHistory, prevIndex, idx, newSessionState) ==
    IF ~Truthy(newSessionState) \/ ~Truthy(Get(newSessionState, "sessionId"))
    THEN [history |-> prevHistory, index |-> prevIndex]
    ELSE LET appended == Append(SliceTo(prevHistory, idx + 1), newSessionState)
             kept == SliceTo(appended, MAX_HISTORY_SIZE)
         IN [history |-> kept, index |-> Len(kept) - 1]

\* updateHistory appending to the whole of prevHistory instead of historyUpToCurrent
updateHistoryKeepsRedo(prevHistory, prevIndex, idx, newSessionState) ==
    IF ~Truthy(newSessionState) \/ ~Truthy(Get(newSessionState, "sessionId"))
    THEN [history |-> prevHistory, index |-> prevIndex]
    ELSE LET appended == Append(prevHistory, newSessionState)
             kept == IF Len(appended) > MAX_HISTORY_SIZE
                     THEN SliceFrom(appended, Len(appended) - MAX_HISTORY_SIZE)
                     ELSE appended
         IN [history |-> kept, index |-> Len(kept) - 1]

\* updateHistory without the test of lines 2295-2298
updateHistoryNoGuard(prevHistory, prevIndex, idx, newSessionState) ==
    LET appended == Append(SliceTo(prevHistory, idx + 1), newSessionState)
        kept == IF Len(appended) > MAX_HISTORY_SIZE
                THEN SliceFrom(appended, Len(appended) - MAX_HISTORY_SIZE)
                ELSE appended
    IN [history |-> kept, index |-> Len(kept) - 1]

\* lines 2295-2311, for the snapshot newSessionState the updater produced;
\* idx is the currentSessionIndex the callback was created with
updateHistory(prevHistory, prevIndex, idx, newSessionState) ==
    IF ~Truthy(newSessionState) \/ ~Truthy(Get(newSessionState, "sessionId"))
    THEN [history |-> prevHistory, index |-> prevIndex]
    ELSE LET historyUpToCurrent == SliceTo(prevHistory, idx + 1)
             appended == Append(historyUpToCurrent, newSessionState)
             updatedFullHistory ==
                 IF Len(appended) > MAX_HISTORY_SIZE
                 THEN SliceFrom(appended, Len(appended) - MAX_HISTORY_SIZE)
                 ELSE appended
         IN [history |-> updatedFullHistory, index |-> Len(updatedFullHistory) - 1]

\* handleUndo without Math.max
handleUndoUnclamped(prevIndex) == prevIndex - 1

\* line 2469
handleUndo(prevIndex) == IF prevIndex - 1 > 0 THEN prevIndex - 1 ELSE 0

\* handleRedo with the upper limit one too low
handleRedoShort(history, prevIndex) ==
    IF Len(history) - 2 < prevIndex + 1 THEN Len(history) - 2 ELSE prevIndex + 1

\* line 2473
handleRedo(history, prevIndex) ==
    IF Len(history) - 1 < prevIndex + 1 THEN Len(history) - 1 ELSE prevIndex + 1

\* lines 2268-2275: the effect that follows every render
persist(history, index, stored) ==
    LET data == SnapshotAt(history, index)
    IN IF Truthy(data) /\ Truthy(Get(data, "sessionId")) THEN JSONstringify(data) ELSE stored

\* lines 2238-2250: the initial history, from what localStorage holds
AbsentItem == [t |-> "absent"]

initialSessionHistory(savedSession, n) ==
    IF savedSession = AbsentItem \/ JSONparseThrows(savedSession)
    THEN <<getInitialSessionData(n)>>
    ELSE IF validateAndMigrateData(JSONparse(savedSession), n) = TypeError
         THEN <<getInitialSessionData(n)>>
         ELSE <<validateAndMigrateData(JSONparse(savedSession), n)>>

----------------------------------------------------------------------------
(* App: the domain mutators, as the functions handed to updateHistory *)

\* addPlayLogEntry without lines 2329-2336: updatesForSession is not looked at
addPlayLogEntryLogOnly(currentData, content, type, colorKey, updatesForSession, n) ==
    LET basePlayLog == IF IsArray(GetOpt(currentData, "playLogEntries"))
                       THEN Get(currentData, "playLogEntries") ELSE EmptyArr
        newEntry == Obj([id |-> Uuid(<<n, 12>>), content |-> content, type |-> type,
                         colorKey |-> colorKey, timestamp |-> NowISO])
    IN Set(Set(currentData, "sessionId", Get(currentData, "sessionId")),
           "playLogEntries", Arr(Append(basePlayLog.e, newEntry)))

\* lines 2317-2339
addPlayLogEntry(currentData, content, type, colorKey, updatesForSession, n) ==
    LET basePlayLog == IF IsArray(GetOpt(currentData, "playLogEntries"))
                       THEN Get(currentData, "playLogEntries") ELSE EmptyArr
        newEntry == Obj([id |-> Uuid(<<n, 12>>), content |-> content, type |-> type,
                         colorKey |-> colorKey, timestamp |-> NowISO])
        newSessionData == Set(Set(currentData, "sessionId", Get(currentData, "sessionId")),
                              "playLogEntries", Arr(Append(basePlayLog.e, newEntry)))
        baseResourceTrackers == IF IsArray(GetOpt(currentData, "resourceTrackers"))
                                THEN Get(currentData, "resourceTrackers") ELSE EmptyArr
    IN IF Truthy(updatesForSession) /\ TypeOf(updatesForSession) = "object"
          /\ Get(updatesForSession, "resourceTrackers") # Undefined
       THEN Set(newSessionData, "resourceTrackers",
                IF IsArray(Get(updatesForSession, "resourceTrackers"))
                THEN Get(updatesForSession, "resourceTrackers") ELSE baseResourceTrackers)
       ELSE newSessionData

\* lines 2391-2399, newTrackers being the array or the updater's result
setResourceTrackers(currentData, newTrackers) ==
    Set(Set(currentData, "sessionId", Get(currentData, "sessionId")), "resourceTrackers", newTrackers)

\* lines 2381-2389
setTables(currentData, newTables) ==
    Set(Set(currentData, "sessionId", Get(currentData, "sessionId")), "tables", newTables)

\* lines 2370-2378
setCharacterSheet(currentData, newSheet) ==
    Set(Set(currentData, "sessionId", Get(currentData, "sessionId")), "characterSheet", newSheet)

\* lines 2411-2413
setTheme(currentData, newTheme) ==
    Set(Set(currentData, "sessionId", Get(currentData, "sessionId")), "theme", newTheme)

\* setLoadedGameDataPackage taking the package's tracker templates whether or not the
\* session has trackers (line 2432 without its first test)
setLoadedGameDataPackageClobbers(currentData, gameDataPkg, newLoadIdOverride, n) ==
    LET sheet == Get(currentData, "characterSheet")
        trackers == Get(currentData, "resourceTrackers")
        tables == Get(currentData, "tables")
        init == initialCharacterSheetValues
        csTemplate == Get(gameDataPkg, "characterSheetTemplate")
        fromFieldTemplate(tmpl, i) ==
            Obj([id |-> Uuid(<<n, 15, i>>),
                 fieldName |-> Get(tmpl, "label"),
                 fieldValue |-> IF Get(tmpl, "type") = Str("number") THEN Str("0") ELSE Str("")])
        fromTrackerTemplate(tmpl, i) ==
            Obj([id |-> Uuid(<<n, 16, i>>),
                 name |-> Get(tmpl, "name"),
                 value |-> Get(tmpl, "initialValue"),
                 history |-> EmptyArr])
        sheetWithLabel ==
            IF Truthy(csTemplate)
            THEN Set(sheet, "statsLabel", OrElse(Get(csTemplate, "statsLabel"), Get(init, "statsLabel")))
            ELSE sheet
        loadedSheet ==
            IF /\ Truthy(csTemplate)
               /\ Len(Get(sheet, "customFields").e) = 0
               /\ Truthy(Get(csTemplate, "customFieldTemplates"))
            THEN Set(sheetWithLabel, "customFields",
                     Arr(SeqMap(fromFieldTemplate, Get(csTemplate, "customFieldTemplates").e)))
            ELSE sheetWithLabel
        loadedTrackers ==
            IF /\ Truthy(Get(gameDataPkg, "resourceTrackerTemplates"))
               /\ Len(Get(gameDataPkg, "resourceTrackerTemplates").e) > 0
            THEN Arr(SeqMap(fromTrackerTemplate, Get(gameDataPkg, "resourceTrackerTemplates").e))
            ELSE trackers
        loadedTables ==
            IF /\ Len(tables.e) = 0
               /\ Truthy(Get(gameDataPkg, "randomTables"))
               /\ Len(Get(gameDataPkg, "randomTables").e) > 0
            THEN JSONValue(Get(gameDataPkg, "randomTables"))
            ELSE tables
        loadId == IF Truthy(newLoadIdOverride) THEN newLoadIdOverride
                  ELSE OrElse(Get(currentData, "gameDataPackageLoadId"), Uuid(<<n, 17>>))
        clearedSheet == Set(Set(sheet, "statsLabel", Get(init, "statsLabel")),
                            "customFields", JSONValue(Get(init, "customFields")))
    IN Spread(Set(currentData, "sessionId", Get(currentData, "sessionId")),
              IF Truthy(gameDataPkg)
              THEN Obj([loadedGameDataPackage |-> gameDataPkg,
                        gameDataPackageLoadId |-> loadId,
                        characterSheet |-> loadedSheet,
                        resourceTrackers |-> loadedTrackers,
                        tables |-> loadedTables])
              ELSE Obj([loadedGameDataPackage |-> gameDataPkg,
                        gameDataPackageLoadId |-> Null,
                        characterSheet |-> clearedSheet,
                        resourceTrackers |-> EmptyArr,
                        tables |-> EmptyArr]))

\* lines 2415-2466
setLoadedGameDataPackage(currentData, gameDataPkg, newLoadIdOverride, n) ==
    LET sheet == Get(currentData, "characterSheet")
        trackers == Get(currentData, "resourceTrackers")
        tables == Get(currentData, "tables")
        init == initialCharacterSheetValues
        csTemplate == Get(gameDataPkg, "characterSheetTemplate")
        fromFieldTemplate(tmpl, i) ==
            Obj([id |-> Uuid(<<n, 15, i>>),
                 fieldName |-> Get(tmpl, "label"),
                 fieldValue |-> IF Get(tmpl, "type") = Str("number") THEN Str("0") ELSE Str("")])
        fromTrackerTemplate(tmpl, i) ==
            Obj([id |-> Uuid(<<n, 16, i>>),
                 name |-> Get(tmpl, "name"),
                 value |-> Get(tmpl, "initialValue"),
                 history |-> EmptyArr])
        sheetWithLabel ==
            IF Truthy(csTemplate)
            THEN Set(sheet, "statsLabel", OrElse(Get(csTemplate, "statsLabel"), Get(init, "statsLabel")))
            ELSE sheet
        loadedSheet ==
            IF /\ Truthy(csTemplate)
               /\ Len(Get(sheet, "customFields").e) = 0
               /\ Truthy(Get(csTemplate, "customFieldTemplates"))
            THEN Set(sheetWithLabel, "customFields",
                     Arr(SeqMap(fromFieldTemplate, Get(csTemplate, "customFieldTemplates").e)))
            ELSE sheetWithLabel
        loadedTrackers ==
            IF /\ Len(trackers.e) = 0
               /\ Truthy(Get(gameDataPkg, "resourceTrackerTemplates"))
               /\ Len(Get(gameDataPkg, "resourceTrackerTemplates").e) > 0
            THEN Arr(SeqMap(fromTrackerTemplate, Get(gameDataPkg, "resourceTrackerTemplates").e))
            ELSE trackers
        loadedTables ==
            IF /\ Len(tables.e) = 0
               /\ Truthy(Get(gameDataPkg, "randomTables"))
               /\ Len(Get(gameDataPkg, "randomTables").e) > 0
            THEN JSONValue(Get(gameDataPkg, "randomTables"))
            ELSE tables
        loadId == IF Truthy(newLoadIdOverride) THEN newLoadIdOverride
                  ELSE OrElse(Get(currentData, "gameDataPackageLoadId"), Uuid(<<n, 17>>))
        clearedSheet == Set(Set(sheet, "statsLabel", Get(init, "statsLabel")),
                            "customFields", JSONValue(Get(init, "customFields")))
    IN Spread(Set(currentData, "sessionId", Get(currentData, "sessionId")),
              IF Truthy(gameDataPkg)
              THEN Obj([loadedGameDataPackage |-> gameDataPkg,
                        gameDataPackageLoadId |-> loadId,
                        characterSheet |-> loadedSheet,
                        resourceTrackers |-> loadedTrackers,
                        tables |-> loadedTables])
              ELSE Obj([loadedGameDataPackage |-> gameDataPkg,
                        gameDataPackageLoadId |-> Null,
                        characterSheet |-> clearedSheet,
                        resourceTrackers |-> EmptyArr,
                        tables |-> EmptyArr]))

\* lines 2522-2531: what reader.onload hands to setLoadedGameDataPackage, or
\* Undefined when the try block raises
acceptedGameData(file, n) ==
    IF JSONparseThrows(file) THEN Undefined
    ELSE LET wrapper == Obj([loadedGameDataPackage |-> JSONparse(file)])
         IN IF validateAndMigrateData(wrapper, n) = TypeError THEN Undefined
            ELSE LET loadedGameData == Get(validateAndMigrateData(wrapper, n), "loadedGameDataPackage")
                 IN IF ~Truthy(loadedGameData)
                       \/ ~Truthy(Get(Get(loadedGameData, "manifest"), "gameTitle"))
                    THEN Undefined
                    ELSE loadedGameData

----------------------------------------------------------------------------
(* ResourceTrackerPanel, RandomTablesPanel, CharacterSheet *)

TRACKER_HISTORY_KEPT == 49

\* arr.find(t => t.id === id)
FindById(arr, id) ==
    IF \E i \in 1..Len(arr.e) : Get(arr.e[i], "id") = id
    THEN arr.e[CHOOSE i \in 1..Len(arr.e) :
                  /\ Get(arr.e[i], "id") = id
                  /\ \A j \in 1..(i - 1) : Get(arr.e[j], "id") # id]
    ELSE Undefined

\* lines 1315-1335: the tracker list handleReflectTrackerChange builds
reflectedTrackers(trackers, id, newValueFromItem, reason, n) ==
    LET currentTracker == FindById(trackers, id)
        previousValue == Get(currentTracker, "value")
        logEntryForInternalHistory ==
            Obj([id |-> Uuid(<<n, 13>>),
                 timestamp |-> NowISO,
                 change |-> NumSub(newValueFromItem, previousValue),
                 previousValue |-> previousValue,
                 newValue |-> newValueFromItem,
                 reason |-> Trim(reason)])
        one(t, i) ==
            IF Get(t, "id") = id
            THEN Spread(t, Obj([value |-> newValueFromItem,
                                history |-> Arr(<<logEntryForInternalHistory>>
                                                \o SliceTo(Get(t, "history").e, TRACKER_HISTORY_KEPT))]))
            ELSE t
    IN Arr(SeqMap(one, trackers.e))

\* lines 1337-1339
shouldLogToPlayLog(trackers, id, newValueFromItem, reason) ==
    \/ StrictNe(newValueFromItem, Get(FindById(trackers, id), "value"))
    \/ Trim(reason) # Str("")

\* line 1350
trackersReallyChanged(newTrackersArray, trackers) ==
    JSONstringify(newTrackersArray) # JSONstringify(trackers)

\* lines 1342-1347
reflectLogMessage(trackers, id, newValueFromItem, reason) ==
    LET currentTracker == FindById(trackers, id)
        trackerName == OrElse(Get(currentTracker, "name"), Str("Unnamed tracker"))
        previousValue == Get(currentTracker, "value")
    IN IF StrictNe(newValueFromItem, previousValue)
       THEN Msg(<<Str("resource changed"), trackerName, previousValue, newValueFromItem,
                  NumSub(newValueFromItem, previousValue), Trim(reason)>>)
       ELSE Msg(<<Str("resource confirmed"), trackerName, newValueFromItem, Trim(reason)>>)

\* lines 1305-1360: the snapshot the handler commits from currentData, Undefined when
\* it calls neither addLogEntry nor setTrackers
handleReflectTrackerChange(currentData, trackers, id, newValueFromItem, reason, n) ==
    IF FindById(trackers, id) = Undefined THEN Undefined
    ELSE IF shouldLogToPlayLog(trackers, id, newValueFromItem, reason)
    THEN addPlayLogEntry(currentData, reflectLogMessage(trackers, id, newValueFromItem, reason),
                         Str("normal"), Str("default"),
                         Obj([resourceTrackers |->
                                  reflectedTrackers(trackers, id, newValueFromItem, reason, n)]), n)
    ELSE IF trackersReallyChanged(reflectedTrackers(trackers, id, newValueFromItem, reason, n), trackers)
    THEN setResourceTrackers(currentData, reflectedTrackers(trackers, id, newValueFromItem, reason, n))
    ELSE Undefined

\* lines 1287-1295
handleAddTracker(currentData, newTrackerName, initialValue, n) ==
    LET newTracker == Obj([id |-> Uuid(<<n, 14>>), name |-> Trim(newTrackerName),
                           value |-> initialValue, history |-> EmptyArr])
        prev == IF IsArray(GetOpt(currentData, "resourceTrackers"))
                THEN Get(currentData, "resourceTrackers") ELSE EmptyArr
    IN setResourceTrackers(currentData, Arr(Append(prev.e, newTracker)))

\* lines 763-774
handleAddTable(currentData, newTableName, n) ==
    LET newTable == Obj([id |-> Uuid(<<n, 18>>), name |-> newTableName,
                         entries |-> Arr(<<Obj([id |-> Uuid(<<n, 19>>), value |-> Str("Sample item 1"),
                                                rollValue |-> Str("")])>>),
                         diceCommand |-> Str("")])
        prev == IF IsArray(GetOpt(currentData, "tables")) THEN Get(currentData, "tables") ELSE EmptyArr
    IN setTables(currentData, Arr(Append(prev.e, newTable)))

\* lines 845-871: rollVal and val are what the prompts returned
handleAddEntry(currentData, tableId, rollVal, val, n) ==
    LET prev == IF IsArray(GetOpt(currentData, "tables")) THEN Get(currentData, "tables") ELSE EmptyArr
        table == FindById(prev, tableId)
        newRollValue == IF Truthy(Get(table, "diceCommand")) THEN rollVal ELSE Str("")
        newEntry == Obj([id |-> Uuid(<<n, 20>>), value |-> val,
                         rollValue |-> OrElse(newRollValue, Undefined)])
        one(t, i) == IF Get(t, "id") = tableId
                     THEN Set(t, "entries", Arr(Append(Get(t, "entries").e, newEntry)))
                     ELSE t
    IN setTables(currentData, Arr(SeqMap(one, prev.e)))

\* lines 213-222
handleAddCustomField(currentData, n) ==
    LET data == Get(currentData, "characterSheet")
        newField == Obj([id |-> Uuid(<<n, 21>>), fieldName |-> Str("New Field"), fieldValue |-> Str("")])
        localCustomFields == IF IsArray(Get(data, "customFields")) THEN Get(data, "customFields").e ELSE <<>>
    IN setCharacterSheet(currentData, Set(data, "customFields", Arr(Append(localCustomFields, newField))))

\* lines 2342-2351
deletePlayLogEntry(currentData, id) ==
    LET basePlayLog == IF IsArray(GetOpt(currentData, "playLogEntries"))
                       THEN Get(currentData, "playLogEntries") ELSE EmptyArr
        kept(entry) == StrictNe(Get(entry, "id"), id)
    IN Set(Set(currentData, "sessionId", Get(currentData, "sessionId")),
           "playLogEntries", Arr(SeqFilter(kept, basePlayLog.e)))

\* lines 2353-2364
updatePlayLogEntry(currentData, id, newContent, newColorKey) ==
    LET basePlayLog == IF IsArray(GetOpt(currentData, "playLogEntries"))
                       THEN Get(currentData, "playLogEntries") ELSE EmptyArr
        updated(entry, i) == IF ~StrictNe(Get(entry, "id"), id)
                             THEN Set(Set(Set(entry, "content", newContent), "colorKey", newColorKey),
                                      "timestamp", NowISO)
                             ELSE entry
    IN Set(Set(currentData, "sessionId", Get(currentData, "sessionId")),
           "playLogEntries", Arr(SeqMap(updated, basePlayLog.e)))

\* setPlayLogTitle starting a session of its own instead of line 2367's sessionId
setPlayLogTitleNewSession(currentData, newTitle) ==
    Set(Set(currentData, "sessionId", Str("another-session")), "playLogTitle", newTitle)

\* lines 2366-2368
setPlayLogTitle(currentData, newTitle) ==
    Set(Set(currentData, "sessionId", Get(currentData, "sessionId")), "playLogTitle", newTitle)

----------------------------------------------------------------------------
(* DiceRoller *)

DICE_HISTORY_KEPT == 19

NoMatch == [numDice |-> -1, sides |-> -1, modifier |-> 0]

\* lines 30-59: what the two patterns make of the commands that occur
DiceParts(command) ==
    CASE command = Str("1d20") -> [numDice |-> 1, sides |-> 20, modifier |-> 0]
      [] command = Str("0d6") -> [numDice |-> 0, sides |-> 6, modifier |-> 0]
      [] OTHER -> NoMatch

RECURSIVE SumOf(_)
SumOf(faces) == IF faces = <<>> THEN 0 ELSE Head(faces) + SumOf(Tail(faces))

\* lines 27-80; faces are the values the Math.random calls yield, one per die
parseAndRollDice(command, faces) ==
    LET parts == DiceParts(Trim(command))
    IN IF parts = NoMatch THEN Obj([error |-> Str("invalid dice command")])
       ELSE IF parts.numDice <= 0 \/ parts.numDice > 100
       THEN Obj([error |-> Str("number of dice out of range")])
       ELSE IF parts.sides <= 1 \/ parts.sides > 1000
       THEN Obj([error |-> Str("number of sides out of range")])
       ELSE IF parts.modifier < 0 \/ parts.modifier > 1000
       THEN Obj([error |-> Str("modifier out of range")])
       ELSE Obj([command |-> Trim(command),
                 individualRolls |-> Arr([i \in 1..Len(faces) |-> Num(faces[i])]),
                 total |-> Num(SumOf(faces) + parts.modifier)])

\* lines 2401-2409, newHistory being the array or the updater's result
setDiceRollHistory(currentData, newHistory) ==
    Set(Set(currentData, "sessionId", Get(currentData, "sessionId")), "diceRollHistory", newHistory)

\* line 524: prev => [newRoll, ...prev.slice(0, 19)], on currentActualHistory (line 2403)
rolledHistory(currentData, newRoll) ==
    LET currentActualHistory == IF IsArray(GetOpt(currentData, "diceRollHistory"))
                                THEN Get(currentData, "diceRollHistory") ELSE EmptyArr
    IN Arr(<<newRoll>> \o SliceTo(currentActualHistory.e, DICE_HISTORY_KEPT))

\* lines 516-522
newRollOf(command, faces, n) ==
    LET result == parseAndRollDice(command, faces)
    IN Obj([id |-> Uuid(<<n, 23>>), command |-> Get(result, "command"),
            individualRolls |-> Get(result, "individualRolls"),
            total |-> Get(result, "total"), timestamp |-> NowISO])

\* lines 487-528: the history and cursor after the handler's updateHistory calls, all
\* made with the cursor idx its callbacks were created with
handleRollDice(history, idx, command, faces, n) ==
    LET result == parseAndRollDice(command, faces)
        newRoll == newRollOf(command, faces, n)
        afterRoll == updateHistory(history, idx, idx,
                                   setDiceRollHistory(SnapshotAt(history, idx),
                                                      rolledHistory(SnapshotAt(history, idx), newRoll)))
    IN IF Trim(command) = Str("")
       THEN updateHistory(history, idx, idx,
                          addPlayLogEntry(SnapshotAt(history, idx), Str("dice roll: empty command"),
                                          Str("normal"), Str("yellow"), Null, n))
       ELSE IF Get(result, "error") # Undefined
       THEN updateHistory(history, idx, idx,
                          addPlayLogEntry(SnapshotAt(history, idx),
                                          Msg(<<Str("dice roll error"), command, Get(result, "error")>>),
                                          Str("normal"), Str("red"), Null, n))
       ELSE updateHistory(afterRoll.history, afterRoll.index, idx,
                          addPlayLogEntry(SnapshotAt(afterRoll.history, idx),
                                          Msg(<<Str("dice roll"), Get(newRoll, "command"),
                                                Get(newRoll, "individualRolls"), Get(newRoll, "total")>>),
                                          Str("normal"), Str("default"), Null, n))

----------------------------------------------------------------------------
(* What the environment supplies *)

\* a session file written by handleSave earlier: one log line, an own sessionId
SavedSession ==
    Obj([sessionId |-> Str("saved-session"),
         playLogEntries |-> Arr(<<Obj([id |-> Str("e1"), content |-> Str("old line"),
                                       type |-> Str("heading"), colorKey |-> Str("red"),
                                       timestamp |-> Str("2023-05-05T10:00:00.000Z")])>>),
         playLogTitle |-> Str("Campaign"),
         theme |-> Str("earth")])

\* what localStorage can hold under LOCAL_STORAGE_KEY when the page is opened
StoredAtStartup == {AbsentItem, GarbageText, JSONstringify(SavedSession)}

\* a session file whose sessionId is the empty string
EmptyIdSession == Obj([sessionId |-> Str(""), playLogTitle |-> Str("No id")])

\* the files the user can hand to handleLoadSession
SessionFiles ==
    {GarbageText, JSONstringify(SavedSession), JSONstringify(EmptyObj), JSONstringify(EmptyIdSession)}

\* game-data package files
GoodPackage ==
    Obj([manifest |-> Obj([gameTitle |-> Str("Game"), author |-> Str("Ann")]),
         characterSheetTemplate |->
             Obj([statsLabel |-> Str("Attributes"),
                  customFieldTemplates |->
                      Arr(<<Obj([id |-> Str("c1"), label |-> Str("Gold"), type |-> Str("number")]),
                            Obj([label |-> Str("Notes"), type |-> Str("textarea")])>>)]),
         randomTables |->
             Arr(<<Obj([id |-> Str("t1"), name |-> Str("Encounters"), diceCommand |-> Str("1d6"),
                        entries |-> Arr(<<Obj([id |-> Str("r1"), rollValue |-> Str("1-3"),
                                               value |-> Str("Wolf")])>>)])>>),
         resourceTrackerTemplates |->
             Arr(<<Obj([name |-> Str("HP"), initialValue |-> Num(10)]),
                   Obj([id |-> Str("mp"), name |-> Str("MP")])>>)])

\* a tracker template whose name is a number
OddPackage ==
    Obj([manifest |-> Obj([gameTitle |-> Str("Odd")]),
         resourceTrackerTemplates |-> Arr(<<Obj([name |-> Num(7), initialValue |-> Num(1)])>>)])

EmptyTitlePackage == Obj([manifest |-> Obj([gameTitle |-> Str("")])])

NullElementPackage ==
    Obj([manifest |-> Obj([gameTitle |-> Str("Holes")]), rulebookSections |-> Arr(<<Null>>)])

\* a package file with two tables under one id
TwinPackage ==
    Obj([manifest |-> Obj([gameTitle |-> Str("Twins")]),
         randomTables |-> Arr(<<Obj([id |-> Str("t1"), name |-> Str("Weather")]),
                                Obj([id |-> Str("t1"), name |-> Str("Omens")])>>)])

\* a package file whose manifest has no gameTitle
NoTitlePackage == Obj([manifest |-> Obj([author |-> Str("Ann")])])

PackageFiles ==
    {JSONstringify(GoodPackage), JSONstringify(OddPackage),
     JSONstringify(EmptyTitlePackage), JSONstringify(NullElementPackage), GarbageText}

\* what the user types into a tracker's value field, as parseFloat reads it, and the
\* reason typed with it
TrackerEdits ==
    {<<Num(5), Str("")>>, <<Num(5), Str("hit")>>, <<Num(7), Str("")>>, <<Infinity, Str("hit")>>}

\* a session file with a load id and no package
StaleSession == Obj([sessionId |-> Str("stale-session"), gameDataPackageLoadId |-> Str("stale")])

\* a session file edited by hand: an empty title, two log lines with one id, and a
\* tracker whose history is one record longer than the panel would keep
OddSession ==
    Obj([sessionId |-> Str("odd-session"),
         playLogTitle |-> Str(""),
         playLogEntries |-> Arr(<<Obj([id |-> Str("e1"), content |-> Str("first"), type |-> Str("normal")]),
                                  Obj([id |-> Str("e1"), content |-> Str("second"), type |-> Str("normal")])>>),
         resourceTrackers |->
             Arr(<<Obj([id |-> Str("r9"), name |-> Str("HP"), value |-> Num(51),
                        history |-> Arr([i \in 1..(TRACKER_HISTORY_KEPT + 2) |->
                                            Obj([change |-> Num(1), previousValue |-> Num(51 - i),
                                                 newValue |-> Num(52 - i)])])])>>)])

\* a session file with a package and no load id
PackagedSession ==
    Obj([sessionId |-> Str("packaged-session"),
         loadedGameDataPackage |-> Obj([manifest |-> Obj([gameTitle |-> Str("Kept")])])])

PanelSessionFiles ==
    {GarbageText, JSONstringify(SavedSession), JSONstringify(StaleSession), JSONstringify(PackagedSession)}

\* the arguments updateHistory refuses: no snapshot, or a snapshot without a sessionId
RefusedSnapshots ==
    {Undefined, Null, EmptyObj, Obj([sessionId |-> Str(""), playLogEntries |-> EmptyArr])}

----------------------------------------------------------------------------
(* Startup *)

Startup(saved) ==
    /\ sessionHistory = initialSessionHistory(saved, 1)
    /\ currentSessionIndex = 0
    /\ localStorage = persist(initialSessionHistory(saved, 1), 0, saved)
    /\ nextUuid = 2
    /\ lastOp = [op |-> "startup"]
    /\ commitRun = [n |-> 0, state |-> initialSessionHistory(saved, 1)[1]]
    /\ undoCount = 0
    /\ mounted = TRUE

Init ==
    /\ \E saved \in StoredAtStartup : Startup(saved)
    /\ vIn = Undefined
    /\ vOut = Undefined

----------------------------------------------------------------------------
(* The handlers *)

\* a mutator's updateHistory call, followed by the render and the persistence effect;
\* pure is the same transform applied to the snapshot commitRun follows
Commit(newSessionState, pure) ==
    LET r == updateHistory(sessionHistory, currentSessionIndex, currentSessionIndex, newSessionState)
    IN /\ sessionHistory' = r.history
       /\ currentSessionIndex' = r.index
       /\ localStorage' = persist(r.history, r.index, localStorage)
       /\ commitRun' = IF ~Truthy(newSessionState) \/ ~Truthy(Get(newSessionState, "sessionId"))
                       THEN commitRun
                       ELSE IF commitRun.n < 0 THEN commitRun
                       ELSE [n |-> commitRun.n + 1, state |-> pure]

\* PlayLog.submitCurrentInput -> addPlayLogEntry (lines 1831-1834, 2316-2340)
AddPlayLogEntry(content, type, colorKey) ==
    /\ Rendered
    /\ nextUuid <= MaxUuid
    /\ content # Str("")
    /\ Commit(addPlayLogEntry(currentSessionData, content, type, colorKey, Null, nextUuid),
              addPlayLogEntry(commitRun.state, content, type, colorKey, Null, nextUuid))
    /\ nextUuid' = nextUuid + 1
    /\ lastOp' = [op |-> "addPlayLogEntry",
                  discarded |-> Len(sessionHistory) - 1 - currentSessionIndex]
    /\ UNCHANGED <<undoCount, vIn, vOut, mounted>>

\* addPlayLogEntry while localStorage refuses the write (quota exceeded, storage
\* disabled): the state update is rendered, then setItem throws inside the persistence
\* effect (line 2271), which has no try/catch; App has no error boundary, so React
\* unmounts the root
AddPlayLogEntryWriteFails(content, type, colorKey) ==
    /\ Rendered
    /\ nextUuid <= MaxUuid
    /\ content # Str("")
    /\ LET r == updateHistory(sessionHistory, currentSessionIndex, currentSessionIndex,
                              addPlayLogEntry(currentSessionData, content, type, colorKey, Null, nextUuid))
       IN /\ sessionHistory' = r.history
          /\ currentSessionIndex' = r.index
    /\ mounted' = FALSE
    /\ nextUuid' = nextUuid + 1
    /\ lastOp' = [op |-> "addPlayLogEntry",
                  discarded |-> Len(sessionHistory) - 1 - currentSessionIndex,
                  writeFailed |-> TRUE]
    /\ commitRun' = [n |-> -1, state |-> Undefined]
    /\ UNCHANGED <<localStorage, undoCount, vIn, vOut>>

\* SaveLoadControls.handleThemeSelect -> setTheme (lines 389-391, 2411-2413)
SetTheme(newTheme) ==
    /\ Rendered
    /\ Commit(setTheme(currentSessionData, newTheme), setTheme(commitRun.state, newTheme))
    /\ lastOp' = [op |-> "setTheme"]
    /\ UNCHANGED <<nextUuid, undoCount, vIn, vOut, mounted>>

\* updateHistory handed a snapshot it refuses (lines 2290-2298)
UpdateHistoryRefused(newSessionState) ==
    /\ Rendered
    /\ Commit(newSessionState, commitRun.state)
    /\ lastOp' = [op |-> "updateHistory"]
    /\ UNCHANGED <<nextUuid, undoCount, vIn, vOut, mounted>>

\* lines 2468-2470
Undo ==
    /\ Rendered
    /\ undoCount < MaxUndo
    /\ currentSessionIndex' = handleUndo(currentSessionIndex)
    /\ localStorage' = persist(sessionHistory, currentSessionIndex', localStorage)
    /\ lastOp' = [op |-> "handleUndo", from |-> currentSessionIndex, snap |-> currentSessionData]
    /\ commitRun' = [n |-> -1, state |-> Undefined]
    /\ undoCount' = undoCount + 1
    /\ UNCHANGED <<sessionHistory, nextUuid, vIn, vOut, mounted>>

\* lines 2472-2474
Redo ==
    /\ Rendered
    /\ currentSessionIndex' = handleRedo(sessionHistory, currentSessionIndex)
    /\ localStorage' = persist(sessionHistory, currentSessionIndex', localStorage)
    /\ lastOp' = [op |-> "handleRedo", from |-> currentSessionIndex,
                  afterUndo |-> lastOp.op = "handleUndo",
                  undoFrom |-> IF lastOp.op = "handleUndo" THEN lastOp.from ELSE -1,
                  snap |-> IF lastOp.op = "handleUndo" THEN lastOp.snap ELSE Undefined]
    /\ commitRun' = [n |-> -1, state |-> Undefined]
    /\ UNCHANGED <<sessionHistory, nextUuid, undoCount, vIn, vOut, mounted>>

\* lines 2499-2517, reader.onload
LoadSession(file) ==
    /\ Rendered
    /\ nextUuid <= MaxUuid
    /\ LET failed == \/ JSONparseThrows(file)
                     \/ validateAndMigrateData(JSONparse(file), nextUuid) = TypeError
           validatedData == validateAndMigrateData(JSONparse(file), nextUuid)
       IN IF failed
          THEN /\ UNCHANGED <<sessionHistory, currentSessionIndex, localStorage, commitRun, nextUuid>>
               /\ lastOp' = [op |-> "handleLoadSession", ok |-> FALSE, file |-> file]
          ELSE /\ sessionHistory' = <<validatedData>>
               /\ currentSessionIndex' = 0
               /\ localStorage' = persist(<<validatedData>>, 0, localStorage)
               /\ commitRun' = [n |-> 0, state |-> validatedData]
               /\ nextUuid' = nextUuid + 1
               /\ lastOp' = [op |-> "handleLoadSession", ok |-> TRUE, file |-> file,
                             lengthBefore |-> Len(sessionHistory)]
    /\ UNCHANGED <<undoCount, vIn, vOut, mounted>>

\* handleResetApp putting the new state on top of the history, as a commit would
handleResetAppOnTop(prevHistory, n) ==
    LET appended == Append(prevHistory, getInitialSessionData(n))
    IN IF Len(appended) > MAX_HISTORY_SIZE
       THEN SliceFrom(appended, Len(appended) - MAX_HISTORY_SIZE)
       ELSE appended

\* lines 2560-2576: the history the updater of handleResetApp returns
handleResetApp(prevHistory, n) ==
    LET newInitialSessionState == getInitialSessionData(n)
        single == <<newInitialSessionState>>
    IN IF Len(single) > MAX_HISTORY_SIZE
       THEN SliceFrom(single, Len(single) - MAX_HISTORY_SIZE)
       ELSE single

\* lines 2554-2579
ResetApp ==
    /\ Rendered
    /\ nextUuid <= MaxUuid
    /\ LET updatedFullHistory == handleResetApp(sessionHistory, nextUuid)
       IN /\ sessionHistory' = updatedFullHistory
          /\ currentSessionIndex' = Len(updatedFullHistory) - 1
          /\ localStorage' = persist(updatedFullHistory, Len(updatedFullHistory) - 1, localStorage)
          /\ commitRun' = [n |-> 0, state |-> SnapshotAt(updatedFullHistory, Len(updatedFullHistory) - 1)]
    /\ nextUuid' = nextUuid + 1
    /\ lastOp' = [op |-> "handleResetApp", lengthBefore |-> Len(sessionHistory)]
    /\ UNCHANGED <<undoCount, vIn, vOut, mounted>>

Next ==
    \/ AddPlayLogEntry(Str("a line"), Str("normal"), Str("default"))
    \/ \E x \in RefusedSnapshots : UpdateHistoryRefused(x)
    \/ Undo
    \/ Redo
    \/ \E file \in SessionFiles : LoadSession(file)
    \/ ResetApp

\* the history engine: deep histories, one mutator
Spec == Init /\ [][Next]_vars

----------------------------------------------------------------------------
(* The panels *)

\* the runs that exercise the panels stop committing here
PanelRoom == nextUuid <= MaxPanelUuid /\ Len(sessionHistory) < MaxPanelHistory

TrackerIds == {Get(Get(currentSessionData, "resourceTrackers").e[i], "id") :
                  i \in 1..Len(Get(currentSessionData, "resourceTrackers").e)}

TableIds == {Get(Get(currentSessionData, "tables").e[i], "id") :
                i \in 1..Len(Get(currentSessionData, "tables").e)}

EntryIds == {Get(Get(currentSessionData, "playLogEntries").e[i], "id") :
                i \in 1..Len(Get(currentSessionData, "playLogEntries").e)}

\* onDeleteEntry (line 2629)
DeletePlayLogEntry(id) ==
    /\ Rendered /\ PanelRoom
    /\ Commit(deletePlayLogEntry(currentSessionData, id), deletePlayLogEntry(commitRun.state, id))
    /\ lastOp' = [op |-> "deletePlayLogEntry"]
    /\ UNCHANGED <<nextUuid, undoCount, vIn, vOut, mounted>>

\* PlayLog.handleSaveEdit -> onUpdateEntry (lines 1823, 2628)
UpdatePlayLogEntry(id, newContent, newColorKey) ==
    /\ Rendered /\ PanelRoom
    /\ Commit(updatePlayLogEntry(currentSessionData, id, newContent, newColorKey),
              updatePlayLogEntry(commitRun.state, id, newContent, newColorKey))
    /\ lastOp' = [op |-> "updatePlayLogEntry"]
    /\ UNCHANGED <<nextUuid, undoCount, vIn, vOut, mounted>>

\* EditableTitle.handleSaveTitle (lines 1654-1661): the title handed to onTitleChange
handleSaveTitle(editTitleText) ==
    IF Trim(editTitleText) = Str("") THEN Str("Play Log") ELSE Trim(editTitleText)

\* onPlayLogTitleChange (line 2626)
SetPlayLogTitle(newTitle) ==
    /\ Rendered /\ PanelRoom
    /\ Commit(setPlayLogTitle(currentSessionData, newTitle), setPlayLogTitle(commitRun.state, newTitle))
    /\ lastOp' = [op |-> "setPlayLogTitle"]
    /\ UNCHANGED <<nextUuid, undoCount, vIn, vOut, mounted>>

PanelAddPlayLogEntry == PanelRoom /\ AddPlayLogEntry(Str("a line"), Str("heading"), Str("red"))

PanelSetTheme(newTheme) == PanelRoom /\ SetTheme(newTheme)

PanelLoadSession(file) == PanelRoom /\ LoadSession(file)

PanelResetApp == PanelRoom /\ ResetApp

\* ResourceTrackerPanel.handleAddTracker (lines 1276-1303)
AddTracker(newTrackerName, initialValue) ==
    /\ Rendered /\ PanelRoom
    /\ Trim(newTrackerName) # Str("")
    /\ initialValue # NaN
    /\ Commit(handleAddTracker(currentSessionData, newTrackerName, initialValue, nextUuid),
              handleAddTracker(commitRun.state, newTrackerName, initialValue, nextUuid))
    /\ nextUuid' = nextUuid + 1
    /\ lastOp' = [op |-> "handleAddTracker"]
    /\ UNCHANGED <<undoCount, vIn, vOut, mounted>>

\* ResourceTrackerPanel.handleReflectTrackerChange (lines 1305-1360); the trackers prop is
\* the tracker list of the rendered snapshot
ReflectTrackerChange(id, newValueFromItem, reason) ==
    /\ Rendered /\ PanelRoom
    /\ LET trackers == Get(currentSessionData, "resourceTrackers")
           committed == handleReflectTrackerChange(currentSessionData, trackers, id,
                                                   newValueFromItem, reason, nextUuid)
       IN /\ IF committed = Undefined
             THEN UNCHANGED <<sessionHistory, currentSessionIndex, localStorage, commitRun>>
             ELSE Commit(committed,
                         handleReflectTrackerChange(commitRun.state, trackers, id,
                                                    newValueFromItem, reason, nextUuid))
          /\ lastOp' = [op |-> "handleReflectTrackerChange", id |-> id,
                        previousValue |-> Get(FindById(trackers, id), "value"),
                        newValue |-> newValueFromItem, reason |-> reason]
    /\ nextUuid' = nextUuid + 1
    /\ UNCHANGED <<undoCount, vIn, vOut, mounted>>

\* RandomTablesPanel.handleAddTable (lines 763-774)
AddTable(newTableName) ==
    /\ Rendered /\ PanelRoom
    /\ Truthy(newTableName)
    /\ Commit(handleAddTable(currentSessionData, newTableName, nextUuid),
              handleAddTable(commitRun.state, newTableName, nextUuid))
    /\ nextUuid' = nextUuid + 1
    /\ lastOp' = [op |-> "handleAddTable"]
    /\ UNCHANGED <<undoCount, vIn, vOut, mounted>>

\* RandomTablesPanel.handleAddEntry (lines 841-872)
AddEntry(tableId, rollVal, val) ==
    /\ Rendered /\ PanelRoom
    /\ Commit(handleAddEntry(currentSessionData, tableId, rollVal, val, nextUuid),
              handleAddEntry(commitRun.state, tableId, rollVal, val, nextUuid))
    /\ nextUuid' = nextUuid + 1
    /\ lastOp' = [op |-> "handleAddEntry"]
    /\ UNCHANGED <<undoCount, vIn, vOut, mounted>>

\* CharacterSheet.handleAddCustomField (lines 213-222)
AddCustomField ==
    /\ Rendered /\ PanelRoom
    /\ Commit(handleAddCustomField(currentSessionData, nextUuid),
              handleAddCustomField(commitRun.state, nextUuid))
    /\ nextUuid' = nextUuid + 1
    /\ lastOp' = [op |-> "handleAddCustomField"]
    /\ UNCHANGED <<undoCount, vIn, vOut, mounted>>

\* handleLoadGameDataPackageFile, reader.onload (lines 2521-2541)
LoadGameDataPackageFile(file) ==
    /\ Rendered /\ PanelRoom
    /\ LET loadedGameData == acceptedGameData(file, nextUuid)
           newLoadId == Uuid(<<nextUuid, 22>>)
       IN IF loadedGameData # Undefined
          THEN /\ Commit(setLoadedGameDataPackage(currentSessionData, loadedGameData, newLoadId, nextUuid),
                         setLoadedGameDataPackage(commitRun.state, loadedGameData, newLoadId, nextUuid))
               /\ lastOp' = [op |-> "handleLoadGameDataPackageFile", ok |-> TRUE,
                             file |-> file, pkg |-> loadedGameData]
          ELSE /\ Commit(setLoadedGameDataPackage(currentSessionData, Null, Null, nextUuid),
                         setLoadedGameDataPackage(commitRun.state, Null, Null, nextUuid))
               /\ lastOp' = [op |-> "handleLoadGameDataPackageFile", ok |-> FALSE,
                             file |-> file, before |-> currentSessionData]
    /\ nextUuid' = nextUuid + 1
    /\ UNCHANGED <<undoCount, vIn, vOut, mounted>>

\* DiceRoller.handleRollDice (lines 487-528), the part after the await included.
\* lastOp.rolls lists, newest first, the rolls made one after the other in a session
\* that was new and had a single snapshot when the first of them was made
RollDice(command, faces) ==
    /\ Rendered
    /\ LET r == handleRollDice(sessionHistory, currentSessionIndex, command, faces, nextUuid)
           rolled == Trim(command) # Str("") /\ Get(parseAndRollDice(command, faces), "error") = Undefined
           fresh == /\ lastOp.op \in {"startup", "handleResetApp"}
                    /\ Len(sessionHistory) = 1
                    /\ Get(currentSessionData, "playLogEntries") = EmptyArr
                    /\ Get(currentSessionData, "diceRollHistory") = EmptyArr
           earlier == IF fresh THEN <<>>
                      ELSE IF lastOp.op = "handleRollDice" /\ lastOp.rolled THEN lastOp.rolls
                      ELSE <<>>
           inRun == fresh \/ (lastOp.op = "handleRollDice" /\ lastOp.rolled /\ lastOp.inRun)
       IN /\ sessionHistory' = r.history
          /\ currentSessionIndex' = r.index
          /\ localStorage' = persist(r.history, r.index, localStorage)
          /\ lastOp' = [op |-> "handleRollDice", rolled |-> rolled,
                        inRun |-> rolled /\ inRun,
                        rolls |-> IF rolled /\ inRun
                                  THEN <<newRollOf(command, faces, nextUuid)>> \o earlier ELSE <<>>,
                        lengthBefore |-> Len(sessionHistory)]
    /\ commitRun' = [n |-> -1, state |-> Undefined]
    /\ nextUuid' = nextUuid + 1
    /\ UNCHANGED <<undoCount, vIn, vOut, mounted>>

\* onUndo (line 2630) in the runs of the panels, which do not count the undos
PanelUndo ==
    /\ Rendered
    /\ currentSessionIndex' = handleUndo(currentSessionIndex)
    /\ localStorage' = persist(sessionHistory, currentSessionIndex', localStorage)
    /\ lastOp' = [op |-> "handleUndo", from |-> currentSessionIndex, snap |-> currentSessionData]
    /\ commitRun' = [n |-> -1, state |-> Undefined]
    /\ UNCHANGED <<sessionHistory, nextUuid, undoCount, vIn, vOut, mounted>>

PanelRollDice == PanelRoom /\ RollDice(Str("1d20"), <<7>>)

PanelNext ==
    \/ PanelAddPlayLogEntry
    \/ \E id \in EntryIds : DeletePlayLogEntry(id)
    \/ \E id \in EntryIds : UpdatePlayLogEntry(id, Str("edited"), Str("blue"))
    \/ SetPlayLogTitle(Str("Chapter 2"))
    \/ PanelRollDice
    \/ PanelSetTheme(Str("dark"))
    \/ AddTracker(Str("Gold"), Num(5))
    \/ \E id \in TrackerIds, c \in TrackerEdits : ReflectTrackerChange(id, c[1], c[2])
    \/ AddTable(Str("Loot"))
    \/ \E id \in TableIds, rv \in {Str(""), Str("4+")} : AddEntry(id, rv, Str("item"))
    \/ AddCustomField
    \/ \E file \in PackageFiles : LoadGameDataPackageFile(file)
    \/ PanelUndo
    \/ Redo
    \/ \E file \in PanelSessionFiles : PanelLoadSession(file)
    \/ PanelResetApp

\* the panels: every mutator, short histories
SpecPanels == Init /\ [][PanelNext]_vars

----------------------------------------------------------------------------
(* Files edited by hand *)

FilesNext ==
    \/ PanelLoadSession(JSONstringify(OddSession))
    \/ \E pkg \in {TwinPackage, NoTitlePackage, EmptyObj} : LoadGameDataPackageFile(JSONstringify(pkg))
    \/ \E id \in TrackerIds, c \in TrackerEdits : ReflectTrackerChange(id, c[1], c[2])
    \/ \E editTitleText \in {Str(""), Str("  "), Str("Chapter 3")} :
           SetPlayLogTitle(handleSaveTitle(editTitleText))
    \/ PanelUndo
    \/ Redo

\* session and package files that no handler of the application wrote, and the
\* tracker panel working on what they leave
SpecFiles == Init /\ [][FilesNext]_vars

----------------------------------------------------------------------------
(* Dice commands that cannot be rolled *)

InputErrorNext ==
    \/ PanelAddPlayLogEntry
    \/ PanelRollDice
    \/ \E command \in {Str(""), Str("  "), Str("roll"), Str("0d6")} : PanelRoom /\ RollDice(command, <<>>)
    \/ PanelUndo
    \/ Redo

\* the dice roller given empty, malformed and out-of-range commands next to good ones
SpecInputErrors == Init /\ [][InputErrorNext]_vars

----------------------------------------------------------------------------
(* A localStorage that refuses writes *)

StorageNext ==
    \/ AddPlayLogEntry(Str("a line"), Str("normal"), Str("default"))
    \/ AddPlayLogEntryWriteFails(Str("a line"), Str("normal"), Str("default"))
    \/ Undo
    \/ Redo

\* the history engine with writes that succeed and writes that fail
SpecStorage == Init /\ [][StorageNext]_vars

----------------------------------------------------------------------------
(* Long runs of dice rolls *)

DiceRoll == nextUuid <= MaxDiceUuid /\ RollDice(Str("1d20"), <<7>>)

DiceNext ==
    \/ DiceRoll
    \/ Undo
    \/ Redo

\* the dice roller: one roll after the other, undo and redo
SpecDice == Init /\ [][DiceNext]_vars

----------------------------------------------------------------------------
(* validateAndMigrateData on its own *)

Pending == [t |-> "pending"]

\* { [k]: v }
Obj1(k, v) == Obj([x \in {k} |-> v])

NotAnArray == {Null, Str("nope"), Num(3), EmptyObj}

BadElements == {Null, Num(1), Str("x"), EmptyArr}

\* arrays with an element that is not an object, alone or before a well-formed one
BrokenArrays == {Arr(<<e>>) : e \in BadElements} \cup {Arr(<<e, EmptyObj>>) : e \in BadElements}

FieldValues == NotAnArray \cup BrokenArrays \cup {EmptyArr, Arr(<<EmptyObj>>)}

SessionSequenceFields == {"playLogEntries", "tables", "resourceTrackers", "diceRollHistory"}

PackageSequenceFields == {"rulebookSections", "randomTables", "resourceTrackerTemplates"}

PackageInputs ==
    {Obj1(k, v) : k \in PackageSequenceFields, v \in FieldValues}
    \cup {Obj1("characterSheetTemplate", Obj1("customFieldTemplates", v)) : v \in FieldValues}
    \cup {Obj1("randomTables", Arr(<<Obj1("entries", v)>>)) : v \in FieldValues}
    \cup {Obj1("manifest", v) : v \in NotAnArray}
    \cup {Obj1("characterSheetTemplate", v) : v \in NotAnArray}
    \cup {Null, Str("pkg"), Num(4), EmptyArr, Arr(<<Num(1)>>), EmptyObj,
          GoodPackage, OddPackage, EmptyTitlePackage}

ValidatorInputs ==
    {Null, Undefined, Str("garbage"), Num(0), Bool(FALSE), EmptyArr, EmptyObj, SavedSession}
    \cup {Obj1(k, v) : k \in SessionSequenceFields, v \in FieldValues}
    \cup {Obj1("characterSheet", Obj1("customFields", v)) : v \in FieldValues}
    \cup {Obj1("characterSheet", v) : v \in NotAnArray \cup {EmptyArr}}
    \cup {Obj1("tables", Arr(<<Obj1("entries", v)>>)) : v \in FieldValues}
    \cup {Obj1("resourceTrackers", Arr(<<Obj1("history", v)>>)) : v \in FieldValues}
    \cup {Obj1(k, v) : k \in {"sessionId", "playLogTitle", "theme", "gameDataPackageLoadId"},
                       v \in {Null, Str(""), Str("zzz"), Num(1)}}
    \cup {Obj1("loadedGameDataPackage", p) : p \in PackageInputs}
    \cup {Obj([loadedGameDataPackage |-> Null, gameDataPackageLoadId |-> Str("stale")]),
          Obj([loadedGameDataPackage |-> GoodPackage, gameDataPackageLoadId |-> Str("kept")])}
    \cup {Obj1("playLogEntries", Arr(<<Obj([type |-> ty, colorKey |-> ck])>>)) :
              ty \in {Str("heading"), Str("shout"), Num(1)}, ck \in {Str("red"), Str("pink"), Null}}
    \cup {Obj1("loadedGameDataPackage",
                Obj1("characterSheetTemplate", Obj1("customFieldTemplates", Arr(<<Obj1("type", ty)>>)))) :
              ty \in {Str("number"), Str("date"), Num(1)}}

ValidatorInit ==
    /\ Startup(AbsentItem)
    /\ vIn \in ValidatorInputs
    /\ vOut = Pending

Validate ==
    /\ vOut = Pending
    /\ vOut' = validateAndMigrateData(vIn, nextUuid)
    /\ nextUuid' = nextUuid + 1
    /\ lastOp' = [op |-> "validateAndMigrateData"]
    /\ UNCHANGED <<sessionHistory, currentSessionIndex, localStorage, commitRun, undoCount, vIn, mounted>>

ValidatorNext == Validate

\* the validator applied once to every input of ValidatorInputs
SpecValidator == ValidatorInit /\ [][ValidatorNext]_vars

----------------------------------------------------------------------------
(* Shapes *)

AllObjects(arr) == IsArray(arr) /\ \A i \in 1..Len(arr.e) : IsNonNullObject(arr.e[i])

\* x has the fields of a SessionState, each of the right kind
IsSessionState(x) ==
    /\ x.t = "object"
    /\ IsString(Get(x, "sessionId"))
    /\ AllObjects(Get(x, "playLogEntries"))
    /\ IsString(Get(x, "playLogTitle"))
    /\ Get(x, "characterSheet").t = "object"
    /\ AllObjects(Get(Get(x, "characterSheet"), "customFields"))
    /\ AllObjects(Get(x, "tables"))
    /\ \A i \in 1..Len(Get(x, "tables").e) : AllObjects(Get(Get(x, "tables").e[i], "entries"))
    /\ AllObjects(Get(x, "resourceTrackers"))
    /\ \A i \in 1..Len(Get(x, "resourceTrackers").e) :
           /\ IsNumber(Get(Get(x, "resourceTrackers").e[i], "value"))
           /\ AllObjects(Get(Get(x, "resourceTrackers").e[i], "history"))
    /\ AllObjects(Get(x, "diceRollHistory"))
    /\ IsString(Get(x, "theme"))
    /\ Get(x, "loadedGameDataPackage").t \in {"null", "object"}
    /\ Get(x, "gameDataPackageLoadId").t \in {"null", "string"}

\* the last n elements of s
LastN(s, n) == IF Len(s) > n THEN SubSeq(s, Len(s) - n + 1, Len(s)) ELSE s

Min(a, b) == IF a < b THEN a ELSE b

----------------------------------------------------------------------------
(* Properties of the history engine *)

\* C1: in every reachable state the cursor points into the history, which holds at
\* least one and at most MAX_HISTORY_SIZE snapshots
C1_CursorInBoundedHistory ==
    /\ 0 <= currentSessionIndex
    /\ currentSessionIndex < Len(sessionHistory)
    /\ Len(sessionHistory) <= MAX_HISTORY_SIZE
    /\ sessionHistory # <<>>

\* a commit has just dropped the oldest snapshot of a full history
C1_Witness ==
    /\ lastOp.op = "addPlayLogEntry"
    /\ Len(sessionHistory) = MAX_HISTORY_SIZE
    /\ commitRun.n >= MAX_HISTORY_SIZE

C3_UndoRedoRestores ==
    (lastOp.op = "handleRedo" /\ lastOp.afterUndo) => currentSessionData = lastOp.snap

\* C3 amended: undo followed at once by redo shows the snapshot that was shown before
\* the undo when the cursor was above 0; at cursor 0 the undo changes nothing and the
\* redo moves to snapshot 1 when the history has one
C3_UndoRedoRestoresAboveZero ==
    (lastOp.op = "handleRedo" /\ lastOp.afterUndo) =>
        /\ lastOp.undoFrom > 0 => currentSessionData = lastOp.snap
        /\ lastOp.undoFrom = 0 => currentSessionIndex = Min(Len(sessionHistory) - 1, 1)

C3_Witness ==
    /\ lastOp.op = "handleRedo" /\ lastOp.afterUndo
    /\ lastOp.undoFrom > 0
    /\ lastOp.undoFrom = currentSessionIndex

\* C4: a commit made while snapshots exist after the cursor drops them: the new history
\* is the old one up to the cursor followed by the new snapshot, cut to its last 10;
\* the cursor is the last index and redo leaves it there
C4_CommitDiscardsRedoBranch ==
    [][(lastOp'.op = "addPlayLogEntry" /\ currentSessionIndex < Len(sessionHistory) - 1) =>
          /\ sessionHistory' =
                 LastN(SubSeq(sessionHistory, 1, currentSessionIndex + 1)
                       \o <<addPlayLogEntry(currentSessionData, Str("a line"), Str("normal"),
                                            Str("default"), Null, nextUuid)>>, 10)
          /\ currentSessionIndex' = Len(sessionHistory') - 1
          /\ handleRedo(sessionHistory', currentSessionIndex') = currentSessionIndex']_vars

C4_Witness == lastOp.op = "addPlayLogEntry" /\ lastOp.discarded > 0

\* C5: a commit whose snapshot is missing, or has no sessionId or a falsy one, changes
\* neither the history nor the cursor
C5_RefusedCommitIsNoOp ==
    [][lastOp'.op = "updateHistory" =>
          /\ sessionHistory' = sessionHistory
          /\ currentSessionIndex' = currentSessionIndex
          /\ currentSessionData' = currentSessionData]_vars

C5_Witness == lastOp.op = "updateHistory" /\ Len(sessionHistory) > 1

----------------------------------------------------------------------------
(* Properties of the validator *)

\* C6: the validator returns a SessionState for every input and never raises
C6_ValidatorTotal == vOut # Pending => (vOut # TypeError /\ IsSessionState(vOut))

\* x without the properties whose value is undefined
RECURSIVE DropUndefined(_)
DropUndefined(x) ==
    CASE x.t = "array" -> Arr([i \in 1..Len(x.e) |-> DropUndefined(x.e[i])])
      [] x.t = "object" ->
           Obj([k \in {j \in DOMAIN x.f : x.f[j] # Undefined} |-> DropUndefined(x.f[k])])
      [] OTHER -> x

\* structural equality of two snapshots in every field except sessionId; a property
\* that is undefined counts as a property that is absent
EqualExceptSessionId(a, b) ==
    DropUndefined(Set(a, "sessionId", Undefined)) = DropUndefined(Set(b, "sessionId", Undefined))

\* what handleSave writes for snapshot s, read back by handleLoadSession
RoundTrip(s, n) == validateAndMigrateData(JSONparse(JSONstringify(s)), n)

\* C7: every snapshot the mutators produce comes back from
\* validateAndMigrateData(JSON.parse(JSON.stringify(s))) structurally equal to itself
\* in every field except sessionId
C7_RoundTripLaw ==
    Rendered => EqualExceptSessionId(RoundTrip(currentSessionData, nextUuid), currentSessionData)

----------------------------------------------------------------------------
(* Properties of the panels *)

TrackerOf(snapshot, id) == FindById(Get(snapshot, "resourceTrackers"), id)

\* C8: handleReflectTrackerChange(id, currentValue, "") appends no snapshot, adds no
\* record to the tracker's own history and adds no play-log entry
C8_ReflectSameValueIsNoOp ==
    [][(/\ lastOp'.op = "handleReflectTrackerChange"
        /\ lastOp'.newValue = lastOp'.previousValue
        /\ lastOp'.reason = Str("")) =>
          /\ sessionHistory' = sessionHistory
          /\ currentSessionIndex' = currentSessionIndex
          /\ Get(TrackerOf(currentSessionData', lastOp'.id), "history")
                 = Get(TrackerOf(currentSessionData, lastOp'.id), "history")
          /\ Get(currentSessionData', "playLogEntries")
                 = Get(currentSessionData, "playLogEntries")]_vars

\* C9: handleReflectTrackerChange(T, n, reason) on a tracker at p # n commits one
\* snapshot in which T has value n, one more history record (the first, with
\* previousValue p, newValue n, change n - p) and the play log has one more entry;
\* handleUndo then shows the snapshot from before the call
C9_AdjustIsOneUndoableStep ==
    [][(/\ lastOp'.op = "handleReflectTrackerChange"
        /\ StrictNe(lastOp'.newValue, lastOp'.previousValue)) =>
          LET before == currentSessionData
              after == currentSessionData'
              tb == TrackerOf(before, lastOp'.id)
              ta == TrackerOf(after, lastOp'.id)
              record == Get(ta, "history").e[1]
          IN /\ sessionHistory' =
                    LastN(SubSeq(sessionHistory, 1, currentSessionIndex + 1) \o <<after>>, 10)
             /\ currentSessionIndex' = Len(sessionHistory') - 1
             /\ Get(ta, "value") = lastOp'.newValue
             /\ Get(tb, "value") = lastOp'.previousValue
             /\ Len(Get(ta, "history").e) = Len(Get(tb, "history").e) + 1
             /\ Tail(Get(ta, "history").e) = Get(tb, "history").e
             /\ Get(record, "previousValue") = lastOp'.previousValue
             /\ Get(record, "newValue") = lastOp'.newValue
             /\ Get(record, "change") = NumSub(lastOp'.newValue, lastOp'.previousValue)
             /\ Len(Get(after, "playLogEntries").e) = Len(Get(before, "playLogEntries").e) + 1
             /\ SubSeq(Get(after, "playLogEntries").e, 1, Len(Get(before, "playLogEntries").e))
                    = Get(before, "playLogEntries").e
             /\ SnapshotAt(sessionHistory', handleUndo(currentSessionIndex')) = before]_vars

\* a tracker has just been moved from 5 to 7
C9_Witness ==
    /\ lastOp.op = "handleReflectTrackerChange"
    /\ lastOp.previousValue = Num(5) /\ lastOp.newValue = Num(7)
    /\ Get(TrackerOf(currentSessionData, lastOp.id), "value") = Num(7)

\* C10: an accepted package load leaves customFields, resourceTrackers and tables as
\* they were wherever they held an element, each on its own; resourceTrackers that were
\* empty become one tracker per resourceTrackerTemplate, with its name and initial value
C10_PackageFillsOnlyEmptyFields ==
    [][(lastOp'.op = "handleLoadGameDataPackageFile" /\ lastOp'.ok) =>
          LET before == currentSessionData
              after == currentSessionData'
              fieldsOf(x) == Get(Get(x, "characterSheet"), "customFields")
              templates == Get(lastOp'.pkg, "resourceTrackerTemplates").e
              made == Get(after, "resourceTrackers").e
          IN /\ Len(fieldsOf(before).e) > 0 => fieldsOf(after) = fieldsOf(before)
             /\ Len(Get(before, "resourceTrackers").e) > 0 =>
                    Get(after, "resourceTrackers") = Get(before, "resourceTrackers")
             /\ Len(Get(before, "tables").e) > 0 => Get(after, "tables") = Get(before, "tables")
             /\ (Len(Get(before, "resourceTrackers").e) = 0 /\ Len(templates) > 0) =>
                    /\ Len(made) = Len(templates)
                    /\ \A i \in 1..Len(templates) :
                           /\ Get(made[i], "name") = Get(templates[i], "name")
                           /\ Get(made[i], "value") = Get(templates[i], "initialValue")
                           /\ Get(made[i], "history") = EmptyArr]_vars

\* a package with tracker templates has been loaded over the user's own tracker
C10_Witness ==
    /\ lastOp.op = "handleLoadGameDataPackageFile" /\ lastOp.ok
    /\ Len(Get(lastOp.pkg, "resourceTrackerTemplates").e) > 0
    /\ Len(Get(currentSessionData, "resourceTrackers").e) = 1
    /\ Get(Get(currentSessionData, "resourceTrackers").e[1], "name") = Str("Gold")

----------------------------------------------------------------------------
(* Properties of the dice roller *)

\* C11: after 25 successful rolls in a row in a new session, diceRollHistory holds 20
\* rolls: the 20 most recent, the most recent first
C11_DiceHistoryKeepsLast20 ==
    (lastOp.op = "handleRollDice" /\ Len(lastOp.rolls) = 25) =>
        /\ Len(Get(currentSessionData, "diceRollHistory").e) = 20
        /\ Get(currentSessionData, "diceRollHistory").e = SubSeq(lastOp.rolls, 1, 20)

----------------------------------------------------------------------------
(* Properties of the game-data package and of sessionId *)

\* C12: loading a package file whose manifest has an empty gameTitle is rejected, and
\* leaves loadedGameDataPackage and gameDataPackageLoadId of the current snapshot as they
\* were before the call, also when a package was loaded
C12_RejectedPackageKeepsPackage ==
    (lastOp.op = "handleLoadGameDataPackageFile" /\ lastOp.file = JSONstringify(EmptyTitlePackage)) =>
        /\ ~lastOp.ok
        /\ Get(currentSessionData, "loadedGameDataPackage") = Get(lastOp.before, "loadedGameDataPackage")
        /\ Get(currentSessionData, "gameDataPackageLoadId") = Get(lastOp.before, "gameDataPackageLoadId")

\* C13: in every snapshot of the history gameDataPackageLoadId is non-null exactly when
\* loadedGameDataPackage is non-null, after startup, session-file load (whatever load id
\* the file carried), package load, package clear, reset and every other mutator
C13_LoadIdIffPackage ==
    \A i \in 1..Len(sessionHistory) :
        (Get(sessionHistory[i], "gameDataPackageLoadId") \notin {Null, Undefined})
            <=> (Get(sessionHistory[i], "loadedGameDataPackage") \notin {Null, Undefined})

\* a session file that carried a load id and no package has been loaded
C13_Witness ==
    /\ lastOp.op = "handleLoadSession" /\ lastOp.ok
    /\ lastOp.file = JSONstringify(StaleSession)
    /\ Get(currentSessionData, "gameDataPackageLoadId") = Null

\* C14: all snapshots of the history carry one sessionId: every mutator's commit puts
\* next to the snapshot it was applied to a snapshot with the same sessionId, and only
\* reset and session-file load, which replace the whole history, bring another one
C14_OneSessionIdInHistory ==
    \A i, j \in 1..Len(sessionHistory) :
        Get(sessionHistory[i], "sessionId") = Get(sessionHistory[j], "sessionId")

\* the title has been set on top of two snapshots of the same session
C14_Witness ==
    /\ lastOp.op = "setPlayLogTitle"
    /\ Len(sessionHistory) = 3 /\ currentSessionIndex = 2
    /\ Get(currentSessionData, "playLogTitle") = Str("Chapter 2")
    /\ Get(sessionHistory[2], "playLogTitle") # Str("Chapter 2")

\* C15: after a reset and after a successful session-file load the current sessionId is
\* an identifier generated by that operation, hence different from the previous
\* session's, and after a load it is not the sessionId written in the file
C15_NewSessionHasFreshId ==
    LET sessionId == Get(currentSessionData, "sessionId")
        generatedNow == "u" \in DOMAIN sessionId /\ sessionId.u[1] = nextUuid - 1
    IN /\ lastOp.op = "handleResetApp" => generatedNow
       /\ (lastOp.op = "handleLoadSession" /\ lastOp.ok) =>
              /\ generatedNow
              /\ sessionId # Get(JSONparse(lastOp.file), "sessionId")

----------------------------------------------------------------------------
(* Properties of session-file load, reset and storage *)

\* C16: a successful session-file load and a reset each leave a history of one snapshot
\* with the cursor on it, the validated content of the file and a new default
\* SessionState respectively; undo and redo then leave the cursor where it is, and the
\* history holds no snapshot of the previous session for them to reach
C16_LoadAndResetReplaceHistory ==
    /\ lastOp.op = "handleResetApp" =>
           /\ sessionHistory = <<getInitialSessionData(nextUuid - 1)>>
           /\ currentSessionIndex = 0
           /\ handleUndo(currentSessionIndex) = 0
           /\ handleRedo(sessionHistory, currentSessionIndex) = 0
    /\ (lastOp.op = "handleLoadSession" /\ lastOp.ok) =>
           /\ sessionHistory = <<validateAndMigrateData(JSONparse(lastOp.file), nextUuid - 1)>>
           /\ currentSessionIndex = 0
           /\ handleUndo(currentSessionIndex) = 0
           /\ handleRedo(sessionHistory, currentSessionIndex) = 0

\* the application has been reset from a history of three snapshots
C16_Witness ==
    /\ lastOp.op = "handleResetApp" /\ lastOp.lengthBefore = 3
    /\ Len(sessionHistory) = 1

\* C17: after startup and after every commit, undo, redo, session-file load and reset,
\* localStorage holds JSON.stringify of the current snapshot; the history a startup
\* leaves is one snapshot, the validator's result on the stored value (the default
\* session when nothing usable was stored)
C17_StorageHoldsCurrent ==
    /\ localStorage = JSONstringify(currentSessionData)
    /\ lastOp.op = "startup" =>
           /\ Len(sessionHistory) = 1 /\ currentSessionIndex = 0
           /\ \/ sessionHistory[1] = getInitialSessionData(1)
              \/ \E saved \in StoredAtStartup \ {AbsentItem, GarbageText} :
                     sessionHistory[1] = validateAndMigrateData(JSONparse(saved), 1)

\* C18: a failed storage write or read is not fatal: after a failed write the history
\* and the cursor are those of the commit and the application still takes operations;
\* after a read at startup that found nothing usable the application runs the default
\* session
C18_StorageFailureIsNotFatal ==
    /\ (lastOp.op = "addPlayLogEntry" /\ "writeFailed" \in DOMAIN lastOp) =>
           /\ currentSessionIndex = Len(sessionHistory) - 1
           /\ Len(Get(currentSessionData, "playLogEntries").e) > 0
           /\ Rendered
    /\ lastOp.op = "startup" => Rendered

----------------------------------------------------------------------------
(* Properties of the sequences inside a snapshot *)

TrackerHistories(snapshot) ==
    {Get(Get(snapshot, "resourceTrackers").e[i], "history").e :
        i \in 1..Len(Get(snapshot, "resourceTrackers").e)}

\* C19: in every snapshot of the history, also one made by loading a session file,
\* each tracker's history has at most 50 records; an adjustment puts its record in
\* front of the 49 newest records the tracker had
C19_TrackerHistoryAtMost50 ==
    /\ \A i \in 1..Len(sessionHistory) :
           \A history \in TrackerHistories(sessionHistory[i]) : Len(history) <= 50
    /\ lastOp.op = "handleReflectTrackerChange" =>
           LET before == FindById(Get(sessionHistory[currentSessionIndex], "resourceTrackers"), lastOp.id)
               after == FindById(Get(currentSessionData, "resourceTrackers"), lastOp.id)
           IN Tail(Get(after, "history").e) = SliceTo(Get(before, "history").e, 49)

UniqueIds(arr) ==
    \A i, j \in 1..Len(arr.e) : i # j => Get(arr.e[i], "id") # Get(arr.e[j], "id")

\* C20: in every snapshot of the history the ids are unique within playLogEntries,
\* tables, each table's entries, resourceTrackers, each tracker's history, customFields
\* and diceRollHistory, also after a session-file load and after a package load that
\* copies the package's tables into the session
C20_IdsUniqueInSequences ==
    \A k \in 1..Len(sessionHistory) :
        LET snapshot == sessionHistory[k]
            tables == Get(snapshot, "tables")
            trackers == Get(snapshot, "resourceTrackers")
        IN /\ UniqueIds(Get(snapshot, "playLogEntries"))
           /\ UniqueIds(tables)
           /\ \A i \in 1..Len(tables.e) : UniqueIds(Get(tables.e[i], "entries"))
           /\ UniqueIds(trackers)
           /\ \A i \in 1..Len(trackers.e) : UniqueIds(Get(trackers.e[i], "history"))
           /\ UniqueIds(Get(Get(snapshot, "characterSheet"), "customFields"))
           /\ UniqueIds(Get(snapshot, "diceRollHistory"))

----------------------------------------------------------------------------
(* Properties of the validator's normalisations *)

\* C21: in the validator's output every enumerated field is inside its allowed set:
\* theme in {dark, light, earth, pastel}, entry type in {normal, heading}, colorKey in
\* the palette keys, custom-field-template type in {text, textarea, number}
C21_EnumsInAllowedSets ==
    (vOut \notin {Pending, TypeError}) =>
        LET entries == Get(vOut, "playLogEntries").e
            pkg == Get(vOut, "loadedGameDataPackage")
            templates == Get(Get(pkg, "characterSheetTemplate"), "customFieldTemplates").e
        IN /\ Get(vOut, "theme") \in {Str(th) : th \in themeOptions}
           /\ \A i \in 1..Len(entries) :
                  /\ Get(entries[i], "type") \in {Str("normal"), Str("heading")}
                  /\ Get(entries[i], "colorKey") \in {Str(c) : c \in PREDEFINED_COLORS}
           /\ pkg # Null =>
                  \A i \in 1..Len(templates) :
                      Get(templates[i], "type") \in {Str("text"), Str("textarea"), Str("number")}

\* the number of elements the output should keep for the input value v of a sequence
\* field: the object elements of an array, none of anything else
ObjectElements(v) ==
    IF IsArray(v) THEN Cardinality({i \in 1..Len(v.e) : IsNonNullObject(v.e[i])}) ELSE 0

\* C22: for every sequence field the validator handles, a non-array input yields the
\* empty sequence and the output has one element per object element of the input,
\* elements that are not objects being dropped
C22_NonObjectElementsDropped ==
    (vOut \notin {Pending, TypeError} /\ IsNonNullObject(vIn)) =>
        /\ \A k \in SessionSequenceFields : Len(Get(vOut, k).e) = ObjectElements(Get(vIn, k))
        /\ Len(Get(Get(vOut, "characterSheet"), "customFields").e) =
               ObjectElements(Get(OrElse(Get(vIn, "characterSheet"), EmptyObj), "customFields"))
        /\ \A pair \in {<<"tables", "entries">>, <<"resourceTrackers", "history">>} :
               LET given == Get(vIn, pair[1])
               IN (IsArray(given) /\ ObjectElements(given) = Len(given.e)) =>
                      \A i \in 1..Len(given.e) :
                          Len(Get(Get(vOut, pair[1]).e[i], pair[2]).e) =
                              ObjectElements(Get(given.e[i], pair[2]))

\* C23: playLogTitle is the empty string in no snapshot of the history: an empty or
\* blank title typed by the user becomes the default label, and so does the empty
\* title of a loaded session file
C23_TitleNeverEmpty ==
    \A i \in 1..Len(sessionHistory) : Get(sessionHistory[i], "playLogTitle") # Str("")

----------------------------------------------------------------------------
(* Properties of package loads, tables and input errors *)

\* C24: a package file is accepted only if the manifest written in it has a truthy
\* gameTitle: a file without a manifest, or whose manifest has no gameTitle, is
\* rejected
C24_PackageNeedsItsOwnTitle ==
    (/\ lastOp.op = "handleLoadGameDataPackageFile"
     /\ ~JSONparseThrows(lastOp.file)
     /\ ~Truthy(GetOpt(GetOpt(JSONparse(lastOp.file), "manifest"), "gameTitle")))
        => ~lastOp.ok

\* C25: in a session that started without tables and saw no edit of a table's
\* diceCommand, every table with a non-empty diceCommand has a non-empty rollValue on
\* each of its entries, in every snapshot
C25_RollValuesWhereDiceCommand ==
    \A k \in 1..Len(sessionHistory) :
        LET tables == Get(sessionHistory[k], "tables").e
        IN \A i \in 1..Len(tables) :
               Truthy(Get(tables[i], "diceCommand")) =>
                   \A j \in 1..Len(Get(tables[i], "entries").e) :
                       Truthy(Get(Get(tables[i], "entries").e[j], "rollValue"))

\* C26: an input validation error changes no state: a dice command that is empty,
\* blank or not a valid dice expression appends no snapshot and leaves the history and
\* the cursor as they were
C26_DiceInputErrorIsNoOp ==
    [][(lastOp'.op = "handleRollDice" /\ ~lastOp'.rolled) =>
          UNCHANGED <<sessionHistory, currentSessionIndex>>]_vars

----------------------------------------------------------------------------
(* Properties of undo, redo and commits seen once more *)

\* C27: undo and redo change only the cursor: undo sets it to max(0, cursor - 1), redo
\* to min(length - 1, cursor + 1); the history keeps its length and every snapshot;
\* undo at index 0 and redo at the last index change nothing
C27_UndoRedoMoveOnlyCursor ==
    [][/\ lastOp'.op = "handleUndo" =>
              /\ sessionHistory' = sessionHistory
              /\ currentSessionIndex' = IF currentSessionIndex = 0 THEN 0 ELSE currentSessionIndex - 1
              /\ currentSessionIndex = 0 => currentSessionData' = currentSessionData
       /\ lastOp'.op = "handleRedo" =>
              /\ sessionHistory' = sessionHistory
              /\ currentSessionIndex' = IF currentSessionIndex = Len(sessionHistory) - 1
                                        THEN currentSessionIndex ELSE currentSessionIndex + 1
              /\ currentSessionIndex = Len(sessionHistory) - 1 =>
                     currentSessionData' = currentSessionData]_vars

\* undo has been called at index 0 of a history with more than one snapshot
C27_Witness ==
    /\ lastOp.op = "handleUndo" /\ lastOp.from = 0
    /\ currentSessionIndex = 0
    /\ Len(sessionHistory) > 1

\* C28: after a successful dice roll, whatever the length of the history, the current
\* snapshot holds the new roll at the head of diceRollHistory and the roll's line at
\* the end of the play log: the second commit of the handler keeps what the first did
C28_RollKeepsBothCommits ==
    (lastOp.op = "handleRollDice" /\ lastOp.rolled) =>
        LET rolls == Get(currentSessionData, "diceRollHistory").e
            entries == Get(currentSessionData, "playLogEntries").e
        IN /\ Len(rolls) > 0
           /\ Get(rolls[1], "id") = Uuid(<<nextUuid - 1, 23>>)
           /\ Len(entries) > 0
           /\ Get(entries[Len(entries)], "id") = Uuid(<<nextUuid - 1, 12>>)

\* C29: every snapshot the validator hands to the history has a truthy sessionId, also
\* after loading a session file whose sessionId is the empty string: the panels are
\* rendered, so that a commit can follow and pass the guard of updateHistory, and the
\* current snapshot is the one in localStorage
C29_LoadedSnapshotHasSessionId ==
    /\ \A i \in 1..Len(sessionHistory) : Truthy(Get(sessionHistory[i], "sessionId"))
    /\ (lastOp.op = "handleLoadSession" /\ lastOp.ok) =>
           /\ Rendered
           /\ updateHistory(sessionHistory, currentSessionIndex, currentSessionIndex,
                            addPlayLogEntry(currentSessionData, Str("a line"), Str("normal"),
                                            Str("default"), Null, nextUuid)).index = 1
           /\ JSONparse(localStorage) = currentSessionData

\* C30: a rejected package load (unparsable text, a validator failure, a falsy
\* gameTitle) is all or nothing: it appends no snapshot and leaves tables,
\* resourceTrackers and characterSheet.customFields as they were
C30_RejectedPackageLoadIsNoOp ==
    [][(lastOp'.op = "handleLoadGameDataPackageFile" /\ ~lastOp'.ok) =>
          /\ UNCHANGED <<sessionHistory, currentSessionIndex>>
          /\ Get(currentSessionData', "tables") = Get(currentSessionData, "tables")
          /\ Get(currentSessionData', "resourceTrackers") = Get(currentSessionData, "resourceTrackers")
          /\ Get(Get(currentSessionData', "characterSheet"), "customFields")
                 = Get(Get(currentSessionData, "characterSheet"), "customFields")]_vars

====
